---- MODULE Spec2Model ----
(***************************************************************************)
(* State-machine model of the Recommendation concept                       *)
(* (src/src/concepts/Recommendation/RecommendationConcept.ts).             *)
(*                                                                         *)
(* The document store is the sequence `store` (natural order = insertion   *)
(* order, which is what find().toArray() yields).  Names are sequences of  *)
(* one-character strings so that toLowerCase() and the id slug             *)
(* replace(/[^a-z0-9]/g, "-") are computed character by character.         *)
(* Confidence is held in hundredths (70 stands for 0.70).                  *)
(*                                                                         *)
(* The rate limiter and the cache of the MusicBrainz wrapper are modelled  *)
(* next to it, in variables of their own (SpecRateLimit, SpecCache).       *)
(***************************************************************************)
EXTENDS Integers, Sequences, FiniteSets, TLC

VARIABLES
  store,     \* the documents of the recommendations collection, in natural order
  now,       \* Date.now()
  nextId,    \* the next value freshID() returns
  last,      \* the most recent call: its parameters and what it returned
  disliked,  \* history: <<userId, item1, lowercased name>> of every record that
             \* a successful provideFeedback(.., false) has updated so far
  inflight,  \* the generate calls that have read the store and not yet written
  rateLimitState,  \* MusicBrainz wrapper: lastRequestTime, in ms since the epoch
  entityCache,     \* MusicBrainz wrapper: lastFetched of each cache entry
  lookups,         \* MusicBrainz wrapper: every lookup call and where it stands
  events,          \* MusicBrainz wrapper: what the lookups and clearCache did, in order
  clock            \* MusicBrainz wrapper: new Date().getTime()

recVars == <<store, now, nextId, last, disliked, inflight>>
mbVars == <<rateLimitState, entityCache, lookups, events, clock>>
vars == <<recVars, mbVars>>

(* ------------------------------ bounds --------------------------------- *)
MaxIds == 2        \* freshID() values handed out in one behaviour of Spec
RetMaxIds == 3     \* the same, in one behaviour of SpecRetrieval
MaxTime == 1       \* Date.now() ranges over 0..MaxTime
MaxAmount == 2     \* largest `amount` a caller passes
MaxCands == 2      \* longest candidate list the LLM returns

(* --------------------------- value universes --------------------------- *)
Absent == <<"\\absent">>          \* an undefined / omitted JS value
FbNull == "null"
FbTrue == "true"
FbFalse == "false"

Users == {"u1", "u2"}
SourceIds == {<<"s1">>, <<"s2">>}

NameA == <<"a">>
NameB == <<"b">>
NameBUpper == <<"B">>
NameC == <<"c">>
NameBC == <<"b", "c">>
NameEmpty == <<>>

(* ------------------------- string conversions -------------------------- *)
Range(s) == { s[i] : i \in 1..Len(s) }
UpperCaseLetters ==
  << "A", "B", "C", "D", "E", "F", "G", "H", "I", "J", "K", "L", "M",
     "N", "O", "P", "Q", "R", "S", "T", "U", "V", "W", "X", "Y", "Z" >>
LowerCaseLetters ==
  << "a", "b", "c", "d", "e", "f", "g", "h", "i", "j", "k", "l", "m",
     "n", "o", "p", "q", "r", "s", "t", "u", "v", "w", "x", "y", "z" >>

\* String.prototype.toLowerCase on one ASCII character.
ToLowerMap ==
  [ c \in Range(UpperCaseLetters) |->
      LowerCaseLetters[CHOOSE i \in 1..26 : UpperCaseLetters[i] = c] ]

ToLowerChar(c) == IF c \in DOMAIN ToLowerMap THEN ToLowerMap[c] ELSE c

ToLowerCase(s) == [i \in 1..Len(s) |-> ToLowerChar(s[i])]

\* The characters the pattern [^a-z0-9] leaves alone.
SlugChars ==
  Range(LowerCaseLetters) \cup {"0", "1", "2", "3", "4", "5", "6", "7", "8", "9"}

Slug(s) ==
  [i \in 1..Len(s) |->
     IF ToLowerChar(s[i]) \in SlugChars THEN ToLowerChar(s[i]) ELSE "-"]

ItemId(userId, name, t) ==
  <<"rec:", userId, ":">> \o Slug(name) \o <<":", ToString(t)>>

(* ---------------------------- JS truthiness ---------------------------- *)
UserAbsent == "\\absent"          \* an omitted userId parameter

\* A test that only catches an omitted userId, not an empty one.
FalsyUser_OnlyAbsent(userId) == userId = UserAbsent

FalsyUser(userId) == userId \in {"", UserAbsent}

Truthy(x) == x # Absent /\ x # <<>>

OrElse(a, b) == IF Truthy(a) THEN a ELSE b      \* JS  a || b

(* ----------------------------- inputs drawn ---------------------------- *)
UserArgs == Users \cup {""}
SourceArgs == SourceIds \cup {<<>>}
Amounts == 0..MaxAmount

LLMReasoning == "llm"

MetaS1 == [id |-> Absent, name |-> NameA, title |-> Absent]
MetaS2 == [id |-> <<"s2">>, name |-> <<>>, title |-> NameBUpper]
Metadatas == {MetaS1, MetaS2}

\* Metadata whose id field is present but empty.
MetaEmptyId == [id |-> <<>>, name |-> NameA, title |-> Absent]

SeqsUpTo(S, n) == UNION { [1..k -> S] : k \in 0..n }

\* What the model may report: a name (or none) and a confidence in hundredths.
LLMCandidates ==
  { [name |-> NameA, confidence |-> 70],
    [name |-> NameB, confidence |-> 70],
    [name |-> NameBUpper, confidence |-> 120],
    [name |-> NameEmpty, confidence |-> -10],
    [name |-> Absent, confidence |-> 70] }

LLMOutcomes ==
  { [kind |-> "throw", list |-> <<>>], [kind |-> "garbage", list |-> <<>>] }
  \cup { [kind |-> "list", list |-> l] : l \in SeqsUpTo(LLMCandidates, MaxCands) }

\* What the similarity providers may supply: a name (the name or title of a
\* catalogue entity, never empty) and a score.
SimilarArtists ==
  { [name |-> NameA, score |-> 70], [name |-> NameBUpper, score |-> 120] }
SimilarRecordings ==
  { [name |-> NameB, score |-> 120], [name |-> NameA, score |-> 70] }
SimilarReleaseGroups ==
  { [name |-> NameB, score |-> 70], [name |-> NameA, score |-> 70] }

(* ------------------------------ getFeedbackHistory --------------------- *)
HistoryEntry(doc) ==
  [ recommendationId |-> doc._id,
    item |-> IF Truthy(doc.itemName) THEN doc.itemName ELSE doc.item2,
    feedback |-> doc.feedback,
    reasoning |-> doc.reasoning,
    sourceItem |-> doc.item1 ]

\* A history filter that forgets the user.
FeedbackFilter_AnyUser(doc, userId, sourceItem) ==
  /\ doc.feedback # FbNull
  /\ Truthy(sourceItem) => doc.item1 = sourceItem

\* A history filter that forgets the source item: feedback of every source.
FeedbackFilter_AnySource(doc, userId, sourceItem) ==
  doc.userId = userId /\ doc.feedback # FbNull

\* A history filter that also lets records without feedback through.
FeedbackFilter_AllRecords(doc, userId, sourceItem) ==
  /\ doc.userId = userId
  /\ Truthy(sourceItem) => doc.item1 = sourceItem

FeedbackFilter(doc, userId, sourceItem) ==
  /\ doc.userId = userId
  /\ doc.feedback # FbNull
  /\ Truthy(sourceItem) => doc.item1 = sourceItem

getFeedbackHistory(st, userId, sourceItem) ==
  IF FalsyUser(userId)
  THEN [ok |-> FALSE, err |-> "User ID not specified.", history |-> <<>>]
  ELSE LET docs == SelectSeq(st, LAMBDA d : FeedbackFilter(d, userId, sourceItem))
       IN [ok |-> TRUE, err |-> "",
           history |-> [i \in 1..Len(docs) |-> HistoryEntry(docs[i])]]

(* -------------------------------- generate ----------------------------- *)
\* A resolution that ignores the metadata and keeps the caller's identifier.
SourceItemMBID_IgnoresMetadata(sourceItem, meta) == sourceItem

SourceItemMBID(sourceItem, meta) == OrElse(meta.id, sourceItem)

\* Names collected as stored, without lowercasing.
NonEmptyNames_CaseSensitive(docs) ==
  { n \in { OrElse(d.itemName, <<>>) : d \in Range(docs) } : Len(n) > 0 }

NonEmptyLowerNames(docs) ==
  { n \in { ToLowerCase(OrElse(d.itemName, <<>>)) : d \in Range(docs) } : Len(n) > 0 }

ExistingFeedbackNames(st, userId, mbid) ==
  NonEmptyLowerNames(SelectSeq(st, LAMBDA d :
      d.userId = userId /\ d.item1 = mbid /\ d.feedback # FbNull))

\* A lookup of the previously recommended names that forgets the user.
ExistingRecommendedNames_AnyUser(st, userId, mbid) ==
  NonEmptyLowerNames(SelectSeq(st, LAMBDA d : d.item1 = mbid))

ExistingRecommendedNames(st, userId, mbid) ==
  NonEmptyLowerNames(SelectSeq(st, LAMBDA d :
      d.userId = userId /\ d.item1 = mbid))

Min(a, b) == IF a < b THEN a ELSE b
Max(a, b) == IF a > b THEN a ELSE b

ClampConfidence(c) == Max(0, Min(100, c))

SourceName(meta) == OrElse(meta.name, meta.title)

LLMAccepts(rec, meta, feedbackNames, recommendedNames) ==
  LET normalizedName == ToLowerCase(rec.name) IN
  /\ Truthy(rec.name)
  /\ rec.name # SourceName(meta)
  /\ ~(Truthy(normalizedName) /\ normalizedName \in feedbackNames)
  /\ ~(Truthy(normalizedName) /\ normalizedName \in recommendedNames)

\* A new document that is created with positive feedback already set.
NewDoc_Liked(id, userId, mbid, name, reasoning, confidence, t) ==
  [ _id |-> id, userId |-> userId, item1 |-> mbid,
    item2 |-> ItemId(userId, name, t), itemName |-> name,
    reasoning |-> reasoning, confidence |-> confidence,
    feedback |-> FbTrue, createdAt |-> t ]

NewDoc(id, userId, mbid, name, reasoning, confidence, t) ==
  [ _id |-> id, userId |-> userId, item1 |-> mbid,
    item2 |-> ItemId(userId, name, t), itemName |-> name,
    reasoning |-> reasoning, confidence |-> confidence,
    feedback |-> FbNull, createdAt |-> t ]

\* A loop that does not stop at `amount`.
RECURSIVE LLMLoop_NoLimit(_, _, _, _)
LLMLoop_NoLimit(cands, i, acc, c) ==
  IF i > Len(cands)
  THEN [threw |-> FALSE, recs |-> acc]
  ELSE IF cands[i].name = Absent
  THEN [threw |-> TRUE, recs |-> acc]
  ELSE IF LLMAccepts(cands[i], c.meta, c.feedbackNames, c.recommendedNames)
  THEN LLMLoop_NoLimit(cands, i + 1,
         Append(acc, NewDoc(c.firstId + Len(acc), c.userId, c.mbid, cands[i].name,
                            LLMReasoning, ClampConfidence(cands[i].confidence), c.t)),
         c)
  ELSE LLMLoop_NoLimit(cands, i + 1, acc, c)

\* A loop that passes over a candidate without a name instead of failing on it.
RECURSIVE LLMLoop_SkipsNameless(_, _, _, _)
LLMLoop_SkipsNameless(cands, i, acc, c) ==
  IF i > Len(cands) \/ Len(acc) >= c.amount
  THEN [threw |-> FALSE, recs |-> acc]
  ELSE IF cands[i].name # Absent
          /\ LLMAccepts(cands[i], c.meta, c.feedbackNames, c.recommendedNames)
  THEN LLMLoop_SkipsNameless(cands, i + 1,
         Append(acc, NewDoc(c.firstId + Len(acc), c.userId, c.mbid, cands[i].name,
                            LLMReasoning, ClampConfidence(cands[i].confidence), c.t)),
         c)
  ELSE LLMLoop_SkipsNameless(cands, i + 1, acc, c)

\* The loop of generate over the parsed candidates; threw = a TypeError on a
\* candidate without a name (rec.name.toLowerCase()).
RECURSIVE LLMLoop(_, _, _, _)
LLMLoop(cands, i, acc, c) ==
  IF i > Len(cands) \/ Len(acc) >= c.amount
  THEN [threw |-> FALSE, recs |-> acc]
  ELSE IF cands[i].name = Absent
  THEN [threw |-> TRUE, recs |-> acc]
  ELSE IF LLMAccepts(cands[i], c.meta, c.feedbackNames, c.recommendedNames)
  THEN LLMLoop(cands, i + 1,
         Append(acc, NewDoc(c.firstId + Len(acc), c.userId, c.mbid, cands[i].name,
                            LLMReasoning, ClampConfidence(cands[i].confidence), c.t)),
         c)
  ELSE LLMLoop(cands, i + 1, acc, c)

(* ----------------------------- fallback path --------------------------- *)
Tagged(list, type) ==
  [i \in 1..Len(list) |-> [name |-> list[i].name, type |-> type, score |-> list[i].score]]

AllSimilarItems(similarArtists, similarRecordings, similarReleaseGroups) ==
  Tagged(similarArtists, "artist") \o Tagged(similarRecordings, "recording")
    \o Tagged(similarReleaseGroups, "release-group")

\* Array.prototype.sort with comparator (a, b) => b.score - a.score: stable.
RECURSIVE InsertByScore(_, _)
InsertByScore(sorted, x) ==
  IF sorted = <<>> THEN <<x>>
  ELSE IF Head(sorted).score >= x.score
       THEN <<Head(sorted)>> \o InsertByScore(Tail(sorted), x)
       ELSE <<x>> \o sorted

RECURSIVE SortByScoreDesc(_)
SortByScoreDesc(s) ==
  IF s = <<>> THEN <<>>
  ELSE InsertByScore(SortByScoreDesc(SubSeq(s, 1, Len(s) - 1)), s[Len(s)])

\* A slice that keeps only the first n / 2 elements (`amount` instead of
\* `amount * 2` candidates).
Slice_Half(s, n) == SubSeq(s, 1, Min(n \div 2, Len(s)))

Slice(s, n) == SubSeq(s, 1, Min(n, Len(s)))

\* A confidence that keeps the raw score instead of dividing it by 100.
FallbackConfidence_NotNormalized(score) == score * 100

FallbackConfidence(score) == (score * 100) \div 100

FallbackReasoning(type) == type

FallbackAccepts(item, itemId, acc, amount, feedbackItems, feedbackNames) ==
  LET normalizedName == ToLowerCase(item.name) IN
  /\ Len(acc) < amount
  /\ itemId \notin { acc[k].item2 : k \in 1..Len(acc) }
  /\ normalizedName \notin { ToLowerCase(acc[k].itemName) : k \in 1..Len(acc) }
  /\ normalizedName \notin feedbackItems
  /\ normalizedName \notin feedbackNames

RECURSIVE FallbackLoop(_, _, _, _)
FallbackLoop(items, i, acc, c) ==
  IF i > Len(items) THEN acc
  ELSE IF FallbackAccepts(items[i], ItemId(c.userId, items[i].name, c.t), acc,
                          c.amount, c.feedbackItems, c.feedbackNames)
  THEN FallbackLoop(items, i + 1,
         Append(acc, NewDoc(c.firstId + Len(acc), c.userId, c.mbid, items[i].name,
                            FallbackReasoning(items[i].type),
                            FallbackConfidence(items[i].score), c.t)),
         c)
  ELSE FallbackLoop(items, i + 1, acc, c)

generateFallbackRecommendations(c, similarArtists, similarRecordings, similarReleaseGroups) ==
  FallbackLoop(
    Slice(SortByScoreDesc(AllSimilarItems(similarArtists, similarRecordings,
                                          similarReleaseGroups)),
          c.amount * 2),
    1, <<>>, c)

\* A branch test that also falls back when the completion call failed.
UsesFallback_OnLLMFailure(p) ==
  ~p.llm \/ p.outcome.kind \in {"throw", "garbage"}

\* if (!this.geminiLLM): the fallback path is chosen before the LLM is called.
UsesFallback(p) == ~p.llm

\* generate after its validation, given the feedback history it obtained
\* (feedbackHistoryResult.history || []).
generateFrom(st, t, firstId, p, history) ==
    LET mbid == SourceItemMBID(p.sourceItem, p.meta)
        c == [ userId |-> p.userId, mbid |-> mbid, amount |-> p.amount,
               meta |-> p.meta, t |-> t, firstId |-> firstId,
               feedbackNames |-> ExistingFeedbackNames(st, p.userId, mbid),
               recommendedNames |-> ExistingRecommendedNames(st, p.userId, mbid),
               feedbackItems |->
                 { ToLowerCase(history[k].item) : k \in 1..Len(history) } ]
    IN
    IF UsesFallback(p)
    THEN [ok |-> TRUE, err |-> "",
          recs |-> generateFallbackRecommendations(c, p.similarArtists,
                     p.similarRecordings, p.similarReleaseGroups)]
    ELSE IF p.outcome.kind = "throw"
    THEN [ok |-> FALSE, err |-> "Failed to generate recommendations", recs |-> <<>>]
    ELSE IF p.outcome.kind = "garbage"
    THEN [ok |-> FALSE, err |-> "Failed to parse LLM recommendations.", recs |-> <<>>]
    ELSE LET r == LLMLoop(p.outcome.list, 1, <<>>, c) IN
         IF r.threw
         THEN [ok |-> FALSE, err |-> "Failed to generate recommendations", recs |-> <<>>]
         ELSE [ok |-> TRUE, err |-> "", recs |-> r.recs]

\* generate as a function of the store it reads, the clock, the next fresh id,
\* whether this.geminiLLM is set, the call's parameters p and what the
\* completion call does (outcome).  recs = the documents passed to insertMany.
generate(st, t, firstId, p) ==
  IF FalsyUser(p.userId) \/ ~Truthy(p.sourceItem) \/ p.amount <= 0
  THEN [ok |-> FALSE, err |-> "Invalid user ID, source item or amount specified.",
        recs |-> <<>>]
  ELSE generateFrom(st, t, firstId, p,
         getFeedbackHistory(st, p.userId, SourceItemMBID(p.sourceItem, p.meta)).history)

(* ------------------------------ getRecommendations --------------------- *)
OtherSide(rec, item) == IF rec.item1 = item THEN rec.item2 ELSE rec.item1

Candidate(rec, item) ==
  [ recommendedItem |-> OtherSide(rec, item),
    feedback |-> rec.feedback,
    confidence |-> rec.confidence,
    createdAt |-> rec.createdAt,
    reasoning |-> rec.reasoning,
    itemName |-> IF rec.item1 = item THEN rec.itemName ELSE <<>> ]

IgnoreAbsent == <<Absent>>        \* the ignore parameter left out

IgnoreOrDefault(ignore) == IF ignore = IgnoreAbsent THEN <<>> ELSE ignore

\* The ignore check left out.
Ignored_Never(recommendedId, ignore) == FALSE

Ignored(recommendedId, ignore) == recommendedId \in Range(ignore)

RECURSIVE CollectCandidates(_, _, _, _, _)
CollectCandidates(related, i, acc, item, ignore) ==
  IF i > Len(related) THEN acc
  ELSE LET recommendedId == OtherSide(related[i], item) IN
       IF recommendedId = item
          \/ recommendedId \in { acc[k].recommendedItem : k \in 1..Len(acc) }
       THEN CollectCandidates(related, i + 1, acc, item, ignore)
       ELSE IF Ignored(recommendedId, ignore)
       THEN CollectCandidates(related, i + 1, acc, item, ignore)
       ELSE CollectCandidates(related, i + 1,
              Append(acc, Candidate(related[i], item)), item, ignore)

\* The comparator with the recency tie-break reversed (oldest first).
CompareCandidates_OldestFirst(a, b) ==
  IF a.feedback = FbTrue /\ b.feedback # FbTrue THEN -1
  ELSE IF a.feedback # FbTrue /\ b.feedback = FbTrue THEN 1
  ELSE IF a.feedback = FbNull /\ b.feedback = FbFalse THEN -1
  ELSE IF a.feedback = FbFalse /\ b.feedback = FbNull THEN 1
  ELSE IF a.confidence # b.confidence THEN b.confidence - a.confidence
  ELSE a.createdAt - b.createdAt

\* The comparator of candidates.sort: negative = a first, positive = b first.
CompareCandidates(a, b) ==
  IF a.feedback = FbTrue /\ b.feedback # FbTrue THEN -1
  ELSE IF a.feedback # FbTrue /\ b.feedback = FbTrue THEN 1
  ELSE IF a.feedback = FbNull /\ b.feedback = FbFalse THEN -1
  ELSE IF a.feedback = FbFalse /\ b.feedback = FbNull THEN 1
  ELSE IF a.confidence # b.confidence THEN b.confidence - a.confidence
  ELSE b.createdAt - a.createdAt

\* Stable sort by the comparator.
RECURSIVE InsertCandidate(_, _)
InsertCandidate(sorted, x) ==
  IF sorted = <<>> THEN <<x>>
  ELSE IF CompareCandidates(Head(sorted), x) <= 0
       THEN <<Head(sorted)>> \o InsertCandidate(Tail(sorted), x)
       ELSE <<x>> \o sorted

RECURSIVE SortCandidates(_)
SortCandidates(s) ==
  IF s = <<>> THEN <<>>
  ELSE InsertCandidate(SortCandidates(SubSeq(s, 1, Len(s) - 1)), s[Len(s)])

\* The default mode letting negative feedback through.
FeedbackQualifies_KeepsNegative(candidate, feedbacked) ==
  IF feedbacked THEN TRUE
  ELSE candidate.feedback = FbNull

FeedbackQualifies(candidate, feedbacked) ==
  IF feedbacked THEN candidate.feedback # FbFalse
  ELSE candidate.feedback = FbNull

\* Truncating to `amount` before filtering by feedback.
PickCandidates_TruncateFirst(candidates, i, acc, amount, feedbacked) ==
  SelectSeq(SubSeq(candidates, 1, IF amount < Len(candidates) THEN amount ELSE Len(candidates)),
            LAMBDA c : FeedbackQualifies(c, feedbacked))

RECURSIVE PickCandidates(_, _, _, _, _)
PickCandidates(candidates, i, acc, amount, feedbacked) ==
  IF i > Len(candidates) \/ Len(acc) >= amount THEN acc
  ELSE IF FeedbackQualifies(candidates[i], feedbacked)
  THEN PickCandidates(candidates, i + 1, Append(acc, candidates[i]), amount, feedbacked)
  ELSE PickCandidates(candidates, i + 1, acc, amount, feedbacked)

WithReasoning(candidate) ==
  [ item |-> candidate.recommendedItem, itemName |-> candidate.itemName,
    reasoning |-> candidate.reasoning, confidence |-> candidate.confidence ]

\* A query that only matches the records generated from the item.
RelatedRecommendations_SourceOnly(st, userId, item) ==
  SelectSeq(st, LAMBDA d : d.userId = userId /\ d.item1 = item)

RelatedRecommendations(st, userId, item) ==
  SelectSeq(st, LAMBDA d : d.userId = userId /\ (d.item1 = item \/ d.item2 = item))

\* picked = the candidates pushed to finalWithReasoning, before projection.
getRecommendations(st, q) ==
  IF FalsyUser(q.userId) \/ ~Truthy(q.item) \/ q.amount <= 0
  THEN [ok |-> FALSE, err |-> "Invalid user ID, item or amount specified.",
        picked |-> <<>>, itemsWithReasoning |-> <<>>]
  ELSE
    LET candidates ==
          CollectCandidates(RelatedRecommendations(st, q.userId, q.item), 1, <<>>,
                            q.item, IgnoreOrDefault(q.ignore))
        picked == PickCandidates(SortCandidates(candidates), 1, <<>>,
                                 q.amount, q.feedbacked)
    IN [ok |-> TRUE, err |-> "", picked |-> picked,
        itemsWithReasoning |-> [k \in 1..Len(picked) |-> WithReasoning(picked[k])]]

(* ------------------- provideFeedback / delete / clear ------------------ *)
\* An update filter that forgets the user.
FeedbackTarget_AnyUser(doc, userId, recommendedItem) ==
  doc.item2 = recommendedItem

FeedbackTarget(doc, userId, recommendedItem) ==
  doc.userId = userId /\ doc.item2 = recommendedItem

\* Feedback that is only set once: a later value does not overwrite it.
ApplyFeedback_FirstWins(doc, feedback, t) ==
  [doc EXCEPT !.feedback = IF doc.feedback = FbNull THEN feedback ELSE doc.feedback,
              !.createdAt = t]

\* An update that also resets the confidence of the record.
ApplyFeedback_ResetsConfidence(doc, feedback, t) ==
  [doc EXCEPT !.feedback = feedback, !.createdAt = t, !.confidence = 100]

\* An update that works as a toggle: giving the stored value again clears it.
ApplyFeedback_TogglesOff(doc, feedback, t) ==
  [doc EXCEPT !.feedback = IF doc.feedback = feedback THEN FbNull ELSE feedback,
              !.createdAt = t]

ApplyFeedback(doc, feedback, t) ==
  [doc EXCEPT !.feedback = feedback, !.createdAt = t]

\* An update that stops at the first matching record (updateOne).
provideFeedback_UpdateOne(st, t, userId, recommendedItem, feedback) ==
  IF FalsyUser(userId) \/ ~Truthy(recommendedItem)
  THEN [ok |-> FALSE, err |-> "User ID or recommended item not specified.", st |-> st]
  ELSE IF \A k \in 1..Len(st) : ~FeedbackTarget(st[k], userId, recommendedItem)
  THEN [ok |-> FALSE, st |-> st,
        err |-> "No existing recommendation found for the provided item and user."]
  ELSE [ok |-> TRUE, err |-> "",
        st |-> [k \in 1..Len(st) |->
                  IF /\ FeedbackTarget(st[k], userId, recommendedItem)
                     /\ \A j \in 1..(k - 1) :
                          ~FeedbackTarget(st[j], userId, recommendedItem)
                  THEN ApplyFeedback(st[k], feedback, t) ELSE st[k]]]

provideFeedback(st, t, userId, recommendedItem, feedback) ==
  IF FalsyUser(userId) \/ ~Truthy(recommendedItem)
  THEN [ok |-> FALSE, err |-> "User ID or recommended item not specified.", st |-> st]
  ELSE IF \A k \in 1..Len(st) : ~FeedbackTarget(st[k], userId, recommendedItem)
  THEN [ok |-> FALSE, st |-> st,
        err |-> "No existing recommendation found for the provided item and user."]
  ELSE [ok |-> TRUE, err |-> "",
        st |-> [k \in 1..Len(st) |->
                  IF FeedbackTarget(st[k], userId, recommendedItem)
                  THEN ApplyFeedback(st[k], feedback, t) ELSE st[k]]]

\* A delete that does not look at deletedCount: a missing id reports success.
deleteRecommendation_NoCountCheck(st, recommendationId) ==
  IF recommendationId = 0
  THEN [ok |-> FALSE, err |-> "Recommendation ID not specified.", st |-> st]
  ELSE [ok |-> TRUE, err |-> "",
        st |-> SelectSeq(st, LAMBDA d : d._id # recommendationId)]

\* deleteOne removes the first document whose _id matches.
deleteRecommendation(st, recommendationId) ==
  IF recommendationId = 0
  THEN [ok |-> FALSE, err |-> "Recommendation ID not specified.", st |-> st]
  ELSE IF \A k \in 1..Len(st) : st[k]._id # recommendationId
  THEN [ok |-> FALSE, err |-> "No recommendation found with the provided ID.", st |-> st]
  ELSE LET k == CHOOSE j \in 1..Len(st) :
                  /\ st[j]._id = recommendationId
                  /\ \A m \in 1..(j - 1) : st[m]._id # recommendationId
       IN [ok |-> TRUE, err |-> "",
           st |-> SubSeq(st, 1, k - 1) \o SubSeq(st, k + 1, Len(st))]

clearRecommendations(st, userId) ==
  IF FalsyUser(userId) THEN <<>>
  ELSE SelectSeq(st, LAMBDA d : d.userId # userId)

(* ------------------- the outside calls of an operation ----------------- *)
\* The calls an operation makes to the collection and to the LLM, in order.
\* generate: nothing before its validation passes; then the find inside
\* getFeedbackHistory and the two find calls for the names; on the LLM path
\* one executeLLM; insertMany only when there are new documents.

\* A generate that calls the LLM a second time when the first call failed.
generateCalls_RetriesLLM(st, t, firstId, p) ==
  LET r == generate(st, t, firstId, p) IN
  IF FalsyUser(p.userId) \/ ~Truthy(p.sourceItem) \/ p.amount <= 0
  THEN <<>>
  ELSE <<"find", "find", "find">>
         \o (IF UsesFallback(p) THEN <<>>
             ELSE IF r.ok THEN <<"executeLLM">> ELSE <<"executeLLM", "executeLLM">>)
         \o (IF r.ok /\ r.recs # <<>> THEN <<"insertMany">> ELSE <<>>)

generateCalls(st, t, firstId, p) ==
  LET r == generate(st, t, firstId, p) IN
  IF FalsyUser(p.userId) \/ ~Truthy(p.sourceItem) \/ p.amount <= 0
  THEN <<>>
  ELSE <<"find", "find", "find">>
         \o (IF UsesFallback(p) THEN <<>> ELSE <<"executeLLM">>)
         \o (IF r.ok /\ r.recs # <<>> THEN <<"insertMany">> ELSE <<>>)

provideFeedbackCalls(userId, recommendedItem) ==
  IF FalsyUser(userId) \/ ~Truthy(recommendedItem) THEN <<>> ELSE <<"updateMany">>

deleteRecommendationCalls(recommendationId) ==
  IF recommendationId = 0 THEN <<>> ELSE <<"deleteOne">>

\* A getRecommendations that records in the store what it has shown.
getRecommendationsCalls_MarksShown(q) ==
  IF FalsyUser(q.userId) \/ ~Truthy(q.item) \/ q.amount <= 0 THEN <<>>
  ELSE <<"find", "updateMany">>

getRecommendationsCalls(q) ==
  IF FalsyUser(q.userId) \/ ~Truthy(q.item) \/ q.amount <= 0 THEN <<>> ELSE <<"find">>

getFeedbackHistoryCalls(userId) == IF FalsyUser(userId) THEN <<>> ELSE <<"find">>

StoreWrites == {"insertMany", "updateMany", "deleteOne", "deleteMany"}

(* ------------------------------ insertMany ----------------------------- *)
\* An insert that looks at the store again and leaves out a document whose
\* name is stored by now for the same user and source item.
insertMany_SkipsStoredNames(st, docs) ==
  st \o SelectSeq(docs, LAMBDA d :
          \A k \in 1..Len(st) :
            ~(st[k].userId = d.userId /\ st[k].item1 = d.item1
                /\ ToLowerCase(st[k].itemName) = ToLowerCase(d.itemName)))

\* this.recommendations.insertMany(newRecommendations): appends the documents.
insertMany(st, docs) == st \o docs

(* ----------------------- a store call that fails ------------------------ *)
\* The message of the error the collection raises.
StoreError == "store error"
\* An exception with that message reaching the caller of the engine.
ThrownStoreError == "\\thrown store error"

\* The store calls of generate that can fail: the find inside
\* getFeedbackHistory, the two find calls for the names, and insertMany.
GenerateStoreCalls == {"history", "names", "insert"}

\* generate with valid parameters when the store call `failing` raises.  The
\* error of getFeedbackHistory is dropped (history || []); the name lookups are
\* outside any try; insertMany is inside the try of the LLM path and outside
\* any try on the fallback path.  reached = the failing call was made.
generateStoreFails(st, t, firstId, p, failing) ==
  IF failing = "history"
  THEN generateFrom(st, t, firstId, p, <<>>) @@ [reached |-> TRUE]
  ELSE IF failing = "names"
  THEN [ok |-> FALSE, err |-> ThrownStoreError, recs |-> <<>>, reached |-> TRUE]
  ELSE LET r == generate(st, t, firstId, p) IN
       IF ~r.ok \/ r.recs = <<>>
       THEN r @@ [reached |-> FALSE]
       ELSE IF UsesFallback(p)
       THEN [ok |-> FALSE, err |-> ThrownStoreError, recs |-> r.recs, reached |-> TRUE]
       ELSE [ok |-> FALSE, err |-> "Failed to generate recommendations: store error",
             recs |-> r.recs, reached |-> TRUE]

\* The other operations with valid parameters when their one store call
\* raises: each catch block turns the error into an error descriptor.
getRecommendationsStoreFails == "Failed to retrieve recommendations: store error"
provideFeedbackStoreFails == "Failed to provide feedback: store error"
deleteRecommendationStoreFails == "Failed to delete recommendation: store error"
clearRecommendationsStoreFails == "Failed to clear recommendations: store error"
getFeedbackHistoryStoreFails == "Failed to retrieve feedback history: store error"

(* ------------------- the MusicBrainz wrapper: data --------------------- *)
\* The wrapper's code is the implementation kept in
\* src/context/design/concepts/MusicBrainzAPI/implementation.md.  Times are in
\* milliseconds, as Date.getTime() gives them.
RATE_LIMIT_DELAY_MS == 1100
ENTITY_CACHE_TTL_MS == 24 * 60 * 60 * 1000

MaxLookups == 3    \* lookup calls made in one behaviour of SpecRateLimit
CacheMaxLookups == 2  \* lookup calls made in one behaviour of SpecCache
MaxClears == 1     \* clearCache calls made in one behaviour
MaxSteps == 2      \* half rate-limit intervals the clock moves on by
MaxLongSteps == 1  \* whole cache TTLs the clock moves on by

\* The time of construction.  rateLimitState starts at new Date(0), time 0:
\* the first request finds it at least RATE_LIMIT_DELAY_MS behind it.
StartClock == RATE_LIMIT_DELAY_MS

\* The time that passes between two steps of the wrapper.
\* The time that passes between two steps of the wrapper: half a rate-limit
\* interval, or a whole TTL.
HalfDelay == RATE_LIMIT_DELAY_MS \div 2

Mbids == {"m1", "m2"}
NoMbid == ""
EntityTypes == {"artist", "recording"}

\* `${mbid}-${entityType}`, the _id of a cache entry.
CacheIdentifier(mbid, entityType) == <<mbid, entityType>>

\* lastFetched of an entry findOne does not find.
NoEntry == -1

\* The cache test of _fetchAndCache: an entry is there and younger than the TTL.
CacheHit(cache, id, t, ttlMs) ==
  /\ cache[id] # NoEntry
  /\ t - cache[id] < ttlMs

\* The delay _waitForRateLimit sleeps at time t; 0 when it does not sleep.
RateLimitDelay(t, lastRequestTime) ==
  IF t - lastRequestTime < RATE_LIMIT_DELAY_MS
  THEN RATE_LIMIT_DELAY_MS - (t - lastRequestTime)
  ELSE 0

\* cacheCollection.updateOne({_id}, {$set: {.., lastFetched}}, {upsert: true}).
CacheUpsert(cache, id, t) == [cache EXCEPT ![id] = t]

\* entityCache.deleteMany({mbid}).
CacheDeleteMany(cache, mbid) ==
  [id \in DOMAIN cache |-> IF id[1] = mbid THEN NoEntry ELSE cache[id]]

Event(kind, call, mbid, entityType, at) ==
  [kind |-> kind, call |-> call, mbid |-> mbid, entityType |-> entityType, at |-> at]

\* A lookup call; seen = how many events had happened when it was called.
LookupCall(mbid, entityType, pc, wake, result, seen) ==
  [mbid |-> mbid, entityType |-> entityType, pc |-> pc, wake |-> wake,
   result |-> result, seen |-> seen]

(* -------------------------------- Init --------------------------------- *)
\* What the last call was given and what it answered; before = the store the
\* call found.
Response(op, args, ok, err, out, picked, before) ==
  [op |-> op, args |-> args, ok |-> ok, err |-> err, out |-> out, picked |-> picked,
   before |-> before]

NoArgs == [userId |-> UserAbsent]

Init ==
  /\ store = <<>>
  /\ now = 0
  /\ nextId = 1
  /\ last = Response("none", NoArgs, TRUE, "", <<>>, <<>>, <<>>)
  /\ disliked = {}
  /\ inflight = {}
  /\ rateLimitState = 0
  /\ entityCache = [id \in { CacheIdentifier(m, ty) : m \in Mbids, ty \in EntityTypes }
                       |-> NoEntry]
  /\ lookups = <<>>
  /\ events = <<>>
  /\ clock = StartClock

StoredItems == { store[k].item2 : k \in 1..Len(store) }
StoredIds == { store[k]._id : k \in 1..Len(store) }
UnknownItem == <<"unknown">>

(* ------------------------------- actions ------------------------------- *)
\* Date.now() moves forward between (or stays the same across) calls.
Tick ==
  /\ now < MaxTime
  /\ now' = now + 1
  /\ UNCHANGED <<store, nextId, last, disliked, inflight, mbVars>>

Generate(Calls, maxIds) ==
  \E p \in Calls :
    /\ p.amount <= maxIds + 1 - nextId
    /\ LET r == generate(store, now, nextId, p) IN
         /\ store' = insertMany(store, r.recs)
         /\ nextId' = nextId + Len(r.recs)
         /\ last' = Response("generate", p, r.ok, r.err, r.recs, <<>>, store)
    /\ UNCHANGED <<now, disliked, inflight, mbVars>>

GetRecommendations(UserSet, ItemSet, AmountSet) ==
  \E userId \in UserSet, item \in ItemSet, amount \in AmountSet,
     feedbacked \in BOOLEAN,
     ignore \in {IgnoreAbsent, <<>>} \cup { <<x>> : x \in StoredItems } :
    LET q == [userId |-> userId, item |-> item, amount |-> amount,
              feedbacked |-> feedbacked, ignore |-> ignore]
        r == getRecommendations(store, q)
    IN /\ last' = Response("getRecommendations", q, r.ok, r.err,
                           r.itemsWithReasoning, r.picked, store)
       /\ UNCHANGED <<store, now, nextId, disliked, inflight, mbVars>>

ProvideFeedback(UserSet) ==
  \E userId \in UserSet, recommendedItem \in StoredItems \cup {UnknownItem, <<>>},
     feedback \in {FbTrue, FbFalse} :
    LET r == provideFeedback(store, now, userId, recommendedItem, feedback) IN
      /\ store' = r.st
      /\ last' = Response("provideFeedback",
                          [userId |-> userId, recommendedItem |-> recommendedItem,
                           feedback |-> feedback], r.ok, r.err, <<>>, <<>>, store)
      /\ disliked' =
           IF r.ok /\ feedback = FbFalse
           THEN disliked \cup
                  { <<userId, store[k].item1, ToLowerCase(store[k].itemName)>> :
                      k \in { j \in 1..Len(store) :
                                FeedbackTarget(store[j], userId, recommendedItem) } }
           ELSE disliked
      /\ UNCHANGED <<now, nextId, inflight, mbVars>>

DeleteRecommendation(maxIds) ==
  \E recommendationId \in 0..maxIds :
    LET r == deleteRecommendation(store, recommendationId) IN
      /\ store' = r.st
      /\ last' = Response("deleteRecommendation",
                          [recommendationId |-> recommendationId],
                          r.ok, r.err, <<>>, <<>>, store)
      /\ UNCHANGED <<now, nextId, disliked, inflight, mbVars>>

ClearRecommendations(UserSet) ==
  \E userId \in UserSet \cup {UserAbsent} :
    /\ store' = clearRecommendations(store, userId)
    /\ last' = Response("clearRecommendations", [userId |-> userId],
                        TRUE, "", <<>>, <<>>, store)
    /\ UNCHANGED <<now, nextId, disliked, inflight, mbVars>>

GetFeedbackHistory(UserSet, SourceSet) ==
  \E userId \in UserSet, sourceItem \in SourceSet \cup {Absent} :
    LET r == getFeedbackHistory(store, userId, sourceItem) IN
      /\ last' = Response("getFeedbackHistory",
                          [userId |-> userId, sourceItem |-> sourceItem],
                          r.ok, r.err, r.history, <<>>, store)
      /\ UNCHANGED <<store, now, nextId, disliked, inflight, mbVars>>

\* The same operations, called with valid parameters, when a store call
\* raises.  A write that raises has either taken effect or not.
GenerateStoreFails(Calls, maxIds) ==
  \E p \in Calls, failing \in GenerateStoreCalls, written \in BOOLEAN :
    /\ p.amount <= maxIds + 1 - nextId
    /\ ~FalsyUser(p.userId) /\ Truthy(p.sourceItem) /\ p.amount > 0
    /\ LET r == generateStoreFails(store, now, nextId, p, failing)
           inserted == IF r.ok \/ (r.reached /\ failing = "insert" /\ written)
                       THEN r.recs ELSE <<>>
       IN /\ store' = insertMany(store, inserted)
          /\ nextId' = nextId + Len(r.recs)
          /\ last' = Response("generate", p @@ [failing |-> failing, reached |-> r.reached],
                              r.ok, r.err, IF r.ok THEN r.recs ELSE <<>>, <<>>, store)
    /\ UNCHANGED <<now, disliked, inflight, mbVars>>

GetRecommendationsStoreFails(UserSet, ItemSet) ==
  \E userId \in UserSet, item \in ItemSet :
    /\ last' = Response("getRecommendations",
                        [userId |-> userId, item |-> item, amount |-> 1,
                         feedbacked |-> TRUE, ignore |-> IgnoreAbsent,
                         failing |-> "find", reached |-> TRUE],
                        FALSE, getRecommendationsStoreFails, <<>>, <<>>, store)
    /\ UNCHANGED <<store, now, nextId, disliked, inflight, mbVars>>

ProvideFeedbackStoreFails(UserSet) ==
  \E userId \in UserSet, recommendedItem \in StoredItems \cup {UnknownItem},
     feedback \in {FbTrue, FbFalse}, written \in BOOLEAN :
    /\ store' = IF written
                THEN provideFeedback(store, now, userId, recommendedItem, feedback).st
                ELSE store
    /\ last' = Response("provideFeedback",
                        [userId |-> userId, recommendedItem |-> recommendedItem,
                         feedback |-> feedback,
                         failing |-> "updateMany", reached |-> TRUE],
                        FALSE, provideFeedbackStoreFails, <<>>, <<>>, store)
    /\ UNCHANGED <<now, nextId, disliked, inflight, mbVars>>

DeleteRecommendationStoreFails(maxIds) ==
  \E recommendationId \in 1..maxIds, written \in BOOLEAN :
    /\ store' = IF written THEN deleteRecommendation(store, recommendationId).st
                ELSE store
    /\ last' = Response("deleteRecommendation",
                        [recommendationId |-> recommendationId,
                         failing |-> "deleteOne", reached |-> TRUE],
                        FALSE, deleteRecommendationStoreFails, <<>>, <<>>, store)
    /\ UNCHANGED <<now, nextId, disliked, inflight, mbVars>>

ClearRecommendationsStoreFails(UserSet) ==
  \E userId \in UserSet \cup {UserAbsent}, written \in BOOLEAN :
    /\ store' = IF written THEN clearRecommendations(store, userId) ELSE store
    /\ last' = Response("clearRecommendations",
                        [userId |-> userId, failing |-> "deleteMany", reached |-> TRUE],
                        FALSE, clearRecommendationsStoreFails, <<>>, <<>>, store)
    /\ UNCHANGED <<now, nextId, disliked, inflight, mbVars>>

GetFeedbackHistoryStoreFails(UserSet, SourceSet) ==
  \E userId \in UserSet, sourceItem \in SourceSet \cup {Absent} :
    /\ last' = Response("getFeedbackHistory",
                        [userId |-> userId, sourceItem |-> sourceItem,
                         failing |-> "find", reached |-> TRUE],
                        FALSE, getFeedbackHistoryStoreFails, <<>>, <<>>, store)
    /\ UNCHANGED <<store, now, nextId, disliked, inflight, mbVars>>

\* generate as two steps, so that calls can overlap: every `await` of the
\* method lets another call run.  The first step is the method up to the end
\* of its loop: it validates, reads the store, calls the LLM and builds the new
\* documents (with their fresh ids and the time of the loop).  The second
\* step is insertMany and the return.
GenerateRead(Calls, maxIds, maxInflight) ==
  \E p \in Calls :
    /\ Cardinality(inflight) < maxInflight
    /\ p.amount <= maxIds + 1 - nextId
    /\ LET r == generate(store, now, nextId, p) IN
         /\ inflight' = inflight \cup
              { [p |-> p, ok |-> r.ok, err |-> r.err, recs |-> r.recs,
                 snapshot |-> store] }
         /\ nextId' = nextId + Len(r.recs)
    /\ UNCHANGED <<store, now, last, disliked, mbVars>>

GenerateWrite ==
  \E call \in inflight :
    /\ store' = insertMany(store, call.recs)
    /\ inflight' = inflight \ {call}
    /\ last' = Response("generate", call.p @@ [snapshot |-> call.snapshot],
                        call.ok, call.err, call.recs, <<>>, store)
    /\ UNCHANGED <<now, nextId, disliked, mbVars>>

(* --------------------------- the generation menu ----------------------- *)
NoSimilar == <<>>
NoOutcome == [kind |-> "none", list |-> <<>>]

GenCall(userId, sourceItem, amount, meta, llm, outcome, sa, sr, srg) ==
  [ userId |-> userId, sourceItem |-> sourceItem, amount |-> amount, meta |-> meta,
    llm |-> llm, outcome |-> outcome, similarArtists |-> sa,
    similarRecordings |-> sr, similarReleaseGroups |-> srg ]

\* Calls on an engine with an LLM: the similarity lists only feed the prompt.
LLMCalls(UserSet, SourceSet, AmountSet, MetaSet, OutcomeSet) ==
  { GenCall(u, s, n, m, TRUE, o, NoSimilar, NoSimilar, NoSimilar) :
      u \in UserSet, s \in SourceSet, n \in AmountSet, m \in MetaSet, o \in OutcomeSet }

\* Calls on an engine without an LLM.
FallbackCalls(UserSet, SourceSet, AmountSet, MetaSet, ArtistSet, RecordingSet, GroupSet) ==
  { GenCall(u, s, n, m, FALSE, NoOutcome, sa, sr, srg) :
      u \in UserSet, s \in SourceSet, n \in AmountSet, m \in MetaSet,
      sa \in SeqsUpTo(ArtistSet, 1), sr \in SeqsUpTo(RecordingSet, 1),
      srg \in SeqsUpTo(GroupSet, 1) }

\* Calls the validation of generate rejects.
InvalidCalls ==
  { c \in LLMCalls(UserArgs, SourceArgs, Amounts, {MetaS1},
                   {[kind |-> "list", list |-> <<>>]})
          \cup FallbackCalls(UserArgs, SourceArgs, Amounts, {MetaS1}, {}, {}, {}) :
      ( (c.userId = "" /\ c.sourceItem = <<"s1">> /\ c.amount = 1)
           \/ (c.userId = "u1" /\ c.sourceItem = <<>> /\ c.amount = 1)
           \/ (c.userId = "u1" /\ c.sourceItem = <<"s1">> /\ c.amount = 0) ) }

\* Calls on an engine with an LLM whose completion fails while the similarity
\* providers did supply a candidate.
FailingLLMCalls ==
  { GenCall("u1", <<"s1">>, 1, MetaS2, TRUE, o,
            << [name |-> NameA, score |-> 70] >>, NoSimilar, NoSimilar) :
      o \in { [kind |-> "throw", list |-> <<>>], [kind |-> "garbage", list |-> <<>>] } }

\* Calls whose metadata carries an empty id.
EmptyIdCalls ==
  LLMCalls({"u1"}, {<<"s1">>}, {1}, {MetaEmptyId},
           { [kind |-> "list", list |-> << [name |-> NameB, confidence |-> 70] >>] })

GenCalls ==
  LLMCalls({"u1"}, {<<"s1">>}, 1..MaxAmount, Metadatas, LLMOutcomes)
    \cup FailingLLMCalls
    \cup EmptyIdCalls
    \cup FallbackCalls({"u1"}, {<<"s1">>}, 1..MaxAmount, Metadatas,
                       SimilarArtists, SimilarRecordings, SimilarReleaseGroups)
    \cup InvalidCalls

Next ==
  \/ Generate(GenCalls, MaxIds)
  \/ ProvideFeedback({"u1"})
  \/ DeleteRecommendation(MaxIds)
  \/ ClearRecommendations({"u1"})

Spec == Init /\ [][Next]_vars

(* ------------------- the specification for retrieval ------------------- *)
\* One user, one source, an engine with an LLM whose answer lists three
\* candidates; the clock advances, feedback is recorded, and the user asks for
\* recommendations of the source.
RetOutcome ==
  [kind |-> "list",
   list |-> << [name |-> NameC, confidence |-> 70],
               [name |-> NameBC, confidence |-> 120],
               [name |-> NameB, confidence |-> 70] >>]

RetCalls == LLMCalls({"u1"}, {<<"s1">>}, 1..MaxAmount, {MetaS1}, {RetOutcome})

NextRetrieval ==
  \/ Tick
  \/ Generate(RetCalls, RetMaxIds)
  \/ ProvideFeedback({"u1"})
  \/ GetRecommendations({"u1"}, {<<"s1">>}, 1..MaxAmount)

SpecRetrieval == Init /\ [][NextRetrieval]_vars

(* ---------------- the specification for the stored records ------------- *)
\* Two users share the store; an engine with an LLM that answers one
\* candidate; feedback, deletion, clearing and the feedback history, with
\* valid and with invalid parameters.
StoreMaxIds == 2   \* freshID() values handed out in one behaviour of SpecStore

StoreOutcomes ==
  { [kind |-> "list", list |-> << [name |-> NameB, confidence |-> 70] >>] }

StoreCalls ==
  LLMCalls(Users, {<<"s1">>}, {1}, Metadatas, StoreOutcomes) \cup InvalidCalls

NextStore ==
  \/ Tick
  \/ Generate(StoreCalls, StoreMaxIds)
  \/ ProvideFeedback(UserArgs)
  \/ DeleteRecommendation(StoreMaxIds)
  \/ ClearRecommendations(UserArgs)
  \/ GetFeedbackHistory(UserArgs, SourceIds)
  \/ GetRecommendations({""}, {<<"s1">>}, {1})
  \/ GetRecommendations({"u1"}, {<<>>}, {1})
  \/ GetRecommendations({"u1"}, {<<"s1">>}, {0})

SpecStore == Init /\ [][NextStore]_vars

(* ------------- the specification for a store that may fail ------------ *)
\* One user, an engine with and without an LLM; every operation is called with
\* valid parameters, and any of its store calls may raise.
FaultMaxIds == 2   \* freshID() values handed out in one behaviour of SpecFaults

FaultOutcomes ==
  { [kind |-> "list", list |-> << [name |-> NameB, confidence |-> 70] >>],
    [kind |-> "list", list |-> <<>>] }

FaultCalls ==
  LLMCalls({"u1"}, {<<"s1">>}, {1}, {MetaS1}, FaultOutcomes)
    \cup FallbackCalls({"u1"}, {<<"s1">>}, {1}, {MetaS1},
                       { [name |-> NameB, score |-> 70] }, {}, {})

NextFaults ==
  \/ Generate(FaultCalls, FaultMaxIds)
  \/ ProvideFeedback({"u1"})
  \/ GenerateStoreFails(FaultCalls, FaultMaxIds)
  \/ GetRecommendationsStoreFails({"u1"}, {<<"s1">>})
  \/ ProvideFeedbackStoreFails({"u1"})
  \/ DeleteRecommendationStoreFails(FaultMaxIds)
  \/ ClearRecommendationsStoreFails({"u1"})
  \/ GetFeedbackHistoryStoreFails({"u1"}, {<<"s1">>})

SpecFaults == Init /\ [][NextFaults]_vars

(* -------------- the specification for overlapping calls ---------------- *)
\* One user and one source item, an engine with an LLM; up to MaxInflight
\* generate calls are in progress at a time, and feedback is given in between.
RaceMaxIds == 2    \* freshID() values handed out in one behaviour of SpecRace
MaxInflight == 2   \* generate calls in progress at the same time

RaceOutcomes ==
  { [kind |-> "list", list |-> l] :
      l \in { << [name |-> NameA, confidence |-> 70] >>,
              << [name |-> NameB, confidence |-> 70] >>,
              << [name |-> NameA, confidence |-> 70],
                 [name |-> NameB, confidence |-> 70] >> } }

RaceCalls == LLMCalls({"u1"}, {<<"s1">>}, {1}, {MetaS2}, RaceOutcomes)

NextRace ==
  \/ GenerateRead(RaceCalls, RaceMaxIds, MaxInflight)
  \/ GenerateWrite
  \/ ProvideFeedback({"u1"})

SpecRace == Init /\ [][NextRace]_vars

(* ----------- the specification for retrieval after a dislike ---------- *)
\* One user and one source item; an engine with an LLM and one without, both
\* offered the same name; the clock advances, feedback is recorded, and the
\* user asks for recommendations of the source in the default mode.
DislikeMaxIds == 2   \* freshID() values handed out in one behaviour of SpecDislike

DislikeCalls ==
  LLMCalls({"u1"}, {<<"s1">>}, {1}, {MetaS2},
           { [kind |-> "list", list |-> << [name |-> NameA, confidence |-> 70] >>] })
    \cup FallbackCalls({"u1"}, {<<"s1">>}, {1}, {MetaS2},
                       { [name |-> NameA, score |-> 70] }, {}, {})

NextDislike ==
  \/ Tick
  \/ Generate(DislikeCalls, DislikeMaxIds)
  \/ ProvideFeedback({"u1"})
  \/ GetRecommendations({"u1"}, {<<"s2">>}, 1..MaxAmount)

SpecDislike == Init /\ [][NextDislike]_vars

(* ------- the specification for feedback given during a generate ------- *)
\* One user and one source item; one generate call at a time, on either path,
\* split at its awaits, with provideFeedback calls running in between.
InterleaveMaxIds == 3   \* freshID() values handed out in one behaviour of SpecInterleave

InterleaveCalls ==
  LLMCalls({"u1"}, {<<"s1">>}, {1}, {MetaS1},
           { [kind |-> "list", list |-> << [name |-> NameB, confidence |-> 70] >>],
             [kind |-> "list", list |-> << [name |-> NameC, confidence |-> 70] >>] })
    \cup FallbackCalls({"u1"}, {<<"s1">>}, {1}, {MetaS1},
                       { [name |-> NameB, score |-> 70] }, {}, {})

NextInterleave ==
  \/ GenerateRead(InterleaveCalls, InterleaveMaxIds, 1)
  \/ GenerateWrite
  \/ ProvideFeedback({"u1"})

SpecInterleave == Init /\ [][NextInterleave]_vars

(* ------------- the specification for two users side by side ----------- *)
\* Two users generate from the same source item with the same LLM answer, give
\* feedback and clear; the two queries are called with valid and with invalid
\* parameters.  All calls fall within one tick of the clock.
IsolationMaxIds == 2   \* freshID() values handed out in one behaviour of SpecIsolation

IsolationCalls == LLMCalls(Users, {<<"s1">>}, {1}, Metadatas, StoreOutcomes)

NextIsolation ==
  \/ Generate(IsolationCalls, IsolationMaxIds)
  \/ ProvideFeedback(Users)
  \/ GetRecommendations(UserArgs, SourceArgs, 0..1)
  \/ GetFeedbackHistory(UserArgs, SourceIds)
  \/ ClearRecommendations(Users)

SpecIsolation == Init /\ [][NextIsolation]_vars

(* ------------- the specification for exploring from an item ----------- *)
\* An engine without an LLM.  A user asks for recommendations from the source
\* "Radiohead" and from an item recommended to them, gives feedback, and asks
\* what is recommended for either; a second user has records of the same source.
\* All calls fall within one tick of the clock.
ExploreMaxIds == 3   \* freshID() values handed out in one behaviour of SpecExplore

Radiohead == <<"Radiohead">>
Muse == <<"M", "u", "s", "e">>
PinkFloyd == <<"P", "i", "n", "k", " ", "F", "l", "o", "y", "d">>

NoMetadata == [id |-> Absent, name |-> Absent, title |-> Absent]

MuseAndPinkFloyd ==
  << [name |-> Muse, score |-> 95], [name |-> PinkFloyd, score |-> 70] >>

OnlyMuse == << [name |-> Muse, score |-> 95] >>

\* The id of the record "Muse" recommended to u1 at time 0.
MuseItem == ItemId("u1", Muse, 0)

ExploreCalls ==
  { GenCall("u1", Radiohead, 2, NoMetadata, FALSE, NoOutcome,
            MuseAndPinkFloyd, NoSimilar, NoSimilar),
    GenCall("u1", Radiohead, 1, NoMetadata, FALSE, NoOutcome,
            OnlyMuse, NoSimilar, NoSimilar),
    GenCall("u1", MuseItem, 1, NoMetadata, FALSE, NoOutcome,
            OnlyMuse, NoSimilar, NoSimilar),
    GenCall("u2", Radiohead, 1, NoMetadata, FALSE, NoOutcome,
            OnlyMuse, NoSimilar, NoSimilar) }

NextExplore ==
  \/ Generate(ExploreCalls, ExploreMaxIds)
  \/ ProvideFeedback({"u1"})
  \/ GetRecommendations({"u1"}, {Radiohead, MuseItem}, 1..MaxAmount)

SpecExplore == Init /\ [][NextExplore]_vars

(* ------------------ the MusicBrainz wrapper: actions ------------------- *)
\* Time passes.  The clock is StartClock plus some half intervals plus some
\* whole TTLs.
Advance(Ds) ==
  \E d \in Ds :
    /\ IF d = HalfDelay
       THEN ((clock - StartClock) % ENTITY_CACHE_TTL_MS) \div HalfDelay < MaxSteps
       ELSE (clock - StartClock) \div ENTITY_CACHE_TTL_MS < MaxLongSteps
    /\ clock' = clock + d
    /\ UNCHANGED <<rateLimitState, entityCache, lookups, events, recVars>>

\* lookupArtist / lookupRecording up to the first await of _fetchAndCache: a
\* call without an mbid is answered at once, any other call asks the cache.
Lookup(Args, Types, maxLookups) ==
  \E mbid \in Args, entityType \in Types :
    /\ Len(lookups) < maxLookups
    /\ lookups' = Append(lookups,
         IF mbid = NoMbid
         THEN LookupCall(mbid, entityType, "done", 0, "MBID is required.", Len(events))
         ELSE LookupCall(mbid, entityType, "findOne", 0, "", Len(events)))
    /\ UNCHANGED <<rateLimitState, entityCache, events, clock, recVars>>

\* findOne has answered.  A fresh entry is returned; otherwise the call enters
\* _waitForRateLimit, where it either starts a timer or, when no delay is
\* needed, sets lastRequestTime and calls fetch.
CacheChecked ==
  \E i \in 1..Len(lookups) :
    LET l == lookups[i]
        id == CacheIdentifier(l.mbid, l.entityType)
        delay == RateLimitDelay(clock, rateLimitState) IN
    /\ l.pc = "findOne"
    /\ IF CacheHit(entityCache, id, clock, ENTITY_CACHE_TTL_MS)
       THEN /\ lookups' = [lookups EXCEPT ![i].pc = "done", ![i].result = "cached"]
            /\ events' = Append(events, Event("cacheHit", i, l.mbid, l.entityType, clock))
            /\ UNCHANGED rateLimitState
       ELSE IF delay > 0
       THEN /\ lookups' = [lookups EXCEPT ![i].pc = "sleeping",
                                          ![i].wake = clock + delay]
            /\ events' = Append(events, Event("sleep", i, l.mbid, l.entityType, clock))
            /\ UNCHANGED rateLimitState
       ELSE /\ rateLimitState' = clock
            /\ lookups' = [lookups EXCEPT ![i].pc = "fetching"]
            /\ events' = Append(events, Event("request", i, l.mbid, l.entityType, clock))
    /\ UNCHANGED <<entityCache, clock, recVars>>

\* The timer of _waitForRateLimit fires, at its time or later: the call sets
\* lastRequestTime and calls fetch.
Wake ==
  \E i \in 1..Len(lookups) :
    LET l == lookups[i] IN
    /\ l.pc = "sleeping"
    /\ clock >= l.wake
    /\ rateLimitState' = clock
    /\ lookups' = [lookups EXCEPT ![i].pc = "fetching"]
    /\ events' = Append(events, Event("request", i, l.mbid, l.entityType, clock))
    /\ UNCHANGED <<entityCache, clock, recVars>>

\* The response arrives: a 200 is stored in the cache and returned, a 404 and
\* any other failure are answered with an error and store nothing.
LookupResponse(Outcomes) ==
  \E i \in 1..Len(lookups), outcome \in Outcomes :
    LET l == lookups[i]
        id == CacheIdentifier(l.mbid, l.entityType) IN
    /\ l.pc = "fetching"
    /\ IF outcome = "ok"
       THEN /\ entityCache' = CacheUpsert(entityCache, id, clock)
            /\ events' = Append(events, Event("stored", i, l.mbid, l.entityType, clock))
            /\ lookups' = [lookups EXCEPT ![i].pc = "done", ![i].result = "fetched"]
       ELSE /\ lookups' = [lookups EXCEPT ![i].pc = "done",
                             ![i].result = IF outcome = "404" THEN "Entity not found"
                                           ELSE "Failed to fetch from MusicBrainz API"]
            /\ UNCHANGED <<entityCache, events>>
    /\ UNCHANGED <<rateLimitState, clock, recVars>>

\* clearCache: without an mbid an error, otherwise every entry of the mbid goes.
ClearCache(Args) ==
  \E mbid \in Args :
    /\ Cardinality({ k \in 1..Len(events) :
                       events[k].kind \in {"cleared", "clearRejected"} }) < MaxClears
    /\ IF mbid = NoMbid
       THEN /\ events' = Append(events, Event("clearRejected", 0, mbid, "", clock))
            /\ UNCHANGED entityCache
       ELSE /\ entityCache' = CacheDeleteMany(entityCache, mbid)
            /\ events' = Append(events, Event("cleared", 0, mbid, "", clock))
    /\ UNCHANGED <<rateLimitState, lookups, clock, recVars>>

\* Lookups of one artist that come in while earlier ones wait on the rate
\* limiter; the clock moves by half intervals.
NextRateLimit ==
  \/ Advance({HalfDelay})
  \/ Lookup({"m1", NoMbid}, {"artist"}, MaxLookups)
  \/ CacheChecked
  \/ Wake
  \/ LookupResponse({"ok", "404", "error"})

SpecRateLimit == Init /\ [][NextRateLimit]_vars

\* Lookups and clearCache over two mbids and two entity types; the clock moves
\* by half intervals and by whole TTLs.
NextCache ==
  \/ Advance({HalfDelay, ENTITY_CACHE_TTL_MS})
  \/ Lookup(Mbids \cup {NoMbid}, EntityTypes, CacheMaxLookups)
  \/ CacheChecked
  \/ Wake
  \/ LookupResponse({"ok", "404"})
  \/ ClearCache(Mbids \cup {NoMbid})

SpecCache == Init /\ [][NextCache]_vars

(* ===================== claims checked under Spec ======================= *)
GenerateReturned == last.op = "generate" /\ last.ok

LastMbid == SourceItemMBID(last.args.sourceItem, last.args.meta)

\* The documents that were in the store before the last generate call.
ReturnedIds == { last.out[k]._id : k \in 1..Len(last.out) }
Older == { d \in Range(store) : d._id \notin ReturnedIds }
PreStore == SubSeq(store, 1, Len(store) - Len(last.out))

\* Lowercased names the model or the providers offered to the last generate call.
OfferedNames ==
  IF last.args.llm
  THEN { last.args.outcome.list[k].name : k \in 1..Len(last.args.outcome.list) }
  ELSE { x.name : x \in Range(last.args.similarArtists)
                          \cup Range(last.args.similarRecordings)
                          \cup Range(last.args.similarReleaseGroups) }

SamePair(d, r) == d.userId = r.userId /\ d.item1 = r.item1

SameLowerName(d, r) == ToLowerCase(d.itemName) = ToLowerCase(r.itemName)

(* C2, as stated: once provideFeedback(u, x, false) has succeeded on a record
   named x of source s, no later generate(u, s, ..) returns a record whose
   lowercased name is x. *)
C2_NeverAgainAfterDislike ==
  GenerateReturned =>
    \A k \in 1..Len(last.out) :
      <<last.out[k].userId, last.out[k].item1, ToLowerCase(last.out[k].itemName)>>
        \notin disliked

(* C2, amended: while a record with a non-empty name x of (u, s) is stored
   with negative feedback, no generate(u, s, ..), on either path, returns or
   stores a new record whose lowercased name equals that of x. *)
C2_NoDislikedNameWhileStored ==
  GenerateReturned =>
    \A k \in 1..Len(last.out) : \A d \in Older :
      (SamePair(d, last.out[k]) /\ d.feedback = FbFalse /\ Truthy(d.itemName))
        => ~SameLowerName(d, last.out[k])

\* A generate call that was offered, in another case, a name that is stored
\* with negative feedback for its (user, source).
C2_Witness ==
  /\ GenerateReturned
  /\ \E d \in Older :
       /\ d.userId = last.args.userId /\ d.item1 = LastMbid
       /\ d.feedback = FbFalse
       /\ \E n \in OfferedNames :
            n # d.itemName /\ ToLowerCase(n) = ToLowerCase(d.itemName)

(* C3: the names generate returns for (u, s2) do not depend on the feedback
   recorded on u's records of any other source: the call returns the same
   names on every store that differs from the one it read only in the
   feedback of those records. *)
OtherSourceIdx(st, userId, mbid) ==
  { k \in 1..Len(st) : st[k].userId = userId /\ st[k].item1 # mbid }

WithFeedback(st, f) ==
  [k \in 1..Len(st) |-> IF k \in DOMAIN f THEN [st[k] EXCEPT !.feedback = f[k]] ELSE st[k]]

ReturnedNames(recs) == [k \in 1..Len(recs) |-> recs[k].itemName]

C3_FeedbackIsSourceScoped ==
  last.op = "generate" =>
    \A f \in [OtherSourceIdx(PreStore, last.args.userId, LastMbid)
                -> {FbNull, FbTrue, FbFalse}] :
      LET r == generate(WithFeedback(PreStore, f), now, nextId - Len(last.out),
                        last.args)
      IN r.ok = last.ok /\ ReturnedNames(r.recs) = ReturnedNames(last.out)

\* A generate call that returned a name which the same user has disliked
\* under another source.
C3_Witness ==
  /\ GenerateReturned
  /\ \E k \in 1..Len(last.out) : \E d \in Older :
       /\ d.userId = last.out[k].userId /\ d.item1 # last.out[k].item1
       /\ d.feedback = FbFalse
       /\ SameLowerName(d, last.out[k])

(* C4, as stated: a name already stored for a (userId, sourceItem) pair is
   never stored again for that pair by a later generate call, on either path. *)
C4_NeverStoredAgain ==
  GenerateReturned =>
    \A k \in 1..Len(last.out) : \A d \in Older :
      SamePair(d, last.out[k]) => ~SameLowerName(d, last.out[k])

(* C4 on the LLM path alone: a generate call on the LLM path never stores a
   name whose lowercased form is already stored for that (userId, sourceItem)
   pair, with or without feedback, when the call starts.  This part holds; the
   fallback path is what violates C4_NeverStoredAgain. *)
C4_LLMNeverStoresAgain ==
  (GenerateReturned /\ last.args.llm) =>
    \A k \in 1..Len(last.out) : \A d \in Older :
      SamePair(d, last.out[k]) => ~SameLowerName(d, last.out[k])

\* An LLM-path call that was offered a name already stored, without feedback,
\* for its pair.
C4_Witness ==
  /\ GenerateReturned /\ last.args.llm
  /\ \E d \in Older :
       /\ d.userId = last.args.userId /\ d.item1 = LastMbid
       /\ d.feedback = FbNull
       /\ \E n \in OfferedNames : ToLowerCase(n) = ToLowerCase(d.itemName)

(* C5: the records returned by one generate call have pairwise-distinct
   lowercased names. *)
C5_DistinctNamesInBatch ==
  GenerateReturned =>
    \A i, j \in 1..Len(last.out) :
      i # j => ~SameLowerName(last.out[i], last.out[j])

(* C6: no record returned by generate is named like the source item
   (sourceItemMetadata.name, else sourceItemMetadata.title). *)
C6_NeverTheSourceName ==
  GenerateReturned =>
    \A k \in 1..Len(last.out) : last.out[k].itemName # SourceName(last.args.meta)

(* C7: every stored record has a confidence within [0,1] (0..100 hundredths). *)
C7_ConfidenceInRange ==
  \A k \in 1..Len(store) : store[k].confidence >= 0 /\ store[k].confidence <= 100

(* ================= claims checked under SpecRetrieval ================== *)
GetReturned == last.op = "getRecommendations" /\ last.ok

\* The stored records the last getRecommendations call matched (the call
\* leaves the store as it found it).
Related == Range(RelatedRecommendations(store, last.args.userId, last.args.item))

ReturnedItems == { last.out[k].item : k \in 1..Len(last.out) }

LastIgnore == IF last.args.ignore = IgnoreAbsent THEN {} ELSE Range(last.args.ignore)

(* C1: with feedbacked = true (the default) getRecommendations returns no
   candidate taken from a stored record whose feedback is negative, whatever
   that record's confidence or recency and whatever the amount. *)
C1_NoNegativeByDefault ==
  (GetReturned /\ last.args.feedbacked) =>
    /\ \A k \in 1..Len(last.picked) :
         /\ last.picked[k].feedback # FbFalse
         /\ last.out[k] = WithReasoning(last.picked[k])
         /\ \E d \in Related : Candidate(d, last.args.item) = last.picked[k]

\* A default call that had slots left and returned something, although a
\* negative record was more confident and at least as recent as all it returned.
C1_Witness ==
  /\ GetReturned /\ last.args.feedbacked
  /\ Len(last.out) >= 1 /\ Len(last.out) < last.args.amount
  /\ \E d \in Related :
       /\ d.feedback = FbFalse
       /\ OtherSide(d, last.args.item) \notin LastIgnore
       /\ \A k \in 1..Len(last.picked) :
            /\ d.confidence > last.picked[k].confidence
            /\ d.createdAt >= last.picked[k].createdAt

(* C8: with feedbacked = false getRecommendations returns only candidates
   taken from records whose feedback is unset, and records with feedback use up
   none of the amount slots: the result is the first `amount` unset candidates
   of the ranked list. *)
UnsetOnly(cands) == SelectSeq(cands, LAMBDA c : c.feedback = FbNull)

RankedCandidates ==
  SortCandidates(CollectCandidates(
    RelatedRecommendations(store, last.args.userId, last.args.item), 1, <<>>,
    last.args.item, IgnoreOrDefault(last.args.ignore)))

C8_UnsetOnlyMode ==
  (GetReturned /\ ~last.args.feedbacked) =>
    /\ \A k \in 1..Len(last.picked) :
         /\ last.picked[k].feedback = FbNull
         /\ last.out[k] = WithReasoning(last.picked[k])
         /\ \E d \in Related : Candidate(d, last.args.item) = last.picked[k]
    /\ last.picked = Slice(UnsetOnly(RankedCandidates), last.args.amount)

\* An unset-only call that filled every slot although a positive and a
\* negative record were related too.
C8_Witness ==
  /\ GetReturned /\ ~last.args.feedbacked
  /\ Len(last.out) = last.args.amount
  /\ \E d \in Related :
       d.feedback = FbTrue /\ OtherSide(d, last.args.item) \notin LastIgnore
  /\ \E d \in Related :
       d.feedback = FbFalse /\ OtherSide(d, last.args.item) \notin LastIgnore

(* C9: getRecommendations returns the first `amount` qualifying candidates in
   the order: positive feedback before unset; within a feedback class higher
   confidence first; within equal feedback and confidence the more recent
   createdAt first.  A negative record is not returned and displaces nothing. *)
C9_Class(c) == IF c.feedback = FbTrue THEN 0 ELSE IF c.feedback = FbNull THEN 1 ELSE 2

C9_Before(a, b) ==
  \/ C9_Class(a) < C9_Class(b)
  \/ /\ C9_Class(a) = C9_Class(b)
     /\ \/ a.confidence > b.confidence
        \/ a.confidence = b.confidence /\ a.createdAt > b.createdAt

C9_Qualifying ==
  { Candidate(d, last.args.item) : d \in
      { e \in Related :
          /\ OtherSide(e, last.args.item) \notin LastIgnore \cup {last.args.item}
          /\ IF last.args.feedbacked THEN e.feedback # FbFalse
                                     ELSE e.feedback = FbNull } }

C9_RankedFirstAmount ==
  GetReturned =>
    /\ Range(last.picked) \subseteq C9_Qualifying
    /\ Len(last.picked) = Min(last.args.amount, Cardinality(C9_Qualifying))
    /\ \A i, j \in 1..Len(last.picked) :
         i < j => ~C9_Before(last.picked[j], last.picked[i])
    /\ \A c \in C9_Qualifying \ Range(last.picked) :
         \A k \in 1..Len(last.picked) : ~C9_Before(c, last.picked[k])
    /\ \A k \in 1..Len(last.out) : last.out[k] = WithReasoning(last.picked[k])

\* A default call that returned a positive record and then an unset one while
\* a negative record more confident than both was related.
C9_Witness ==
  /\ GetReturned /\ last.args.feedbacked
  /\ Len(last.picked) = 2
  /\ last.picked[1].feedback = FbTrue /\ last.picked[2].feedback = FbNull
  /\ last.picked[1].createdAt < last.picked[2].createdAt
  /\ \E d \in Related :
       /\ d.feedback = FbFalse
       /\ OtherSide(d, last.args.item) \notin LastIgnore
       /\ d.confidence > last.picked[1].confidence
       /\ d.confidence > last.picked[2].confidence

(* C10: a candidate whose id is in the ignore list never appears in the
   result, in either feedbacked mode; an empty ignore list and an omitted one
   give the same result. *)
C10_IgnoreList ==
  GetReturned =>
    /\ ReturnedItems \cap LastIgnore = {}
    /\ last.args.ignore = IgnoreAbsent =>
         last.out = getRecommendations(store, [last.args EXCEPT !.ignore = <<>>])
                      .itemsWithReasoning
    /\ last.args.ignore = <<>> =>
         last.out = getRecommendations(store, [last.args EXCEPT !.ignore = IgnoreAbsent])
                      .itemsWithReasoning

\* A call that ignored the very candidate that ranks first without the
\* ignore list, and still returned something.
C10_Witness ==
  /\ GetReturned
  /\ Len(last.args.ignore) = 1 /\ last.args.ignore # IgnoreAbsent
  /\ Len(last.out) >= 1
  /\ LET r == getRecommendations(store, [last.args EXCEPT !.ignore = <<>>])
     IN Len(r.itemsWithReasoning) >= 1
        /\ r.itemsWithReasoning[1].item = last.args.ignore[1]

(* =================== claims checked under SpecStore ==================== *)
FeedbackReturned == last.op = "provideFeedback" /\ last.ok

\* The positions of the records of the user and item the last provideFeedback named.
FeedbackIdx(st) ==
  { k \in 1..Len(st) : /\ st[k].userId = last.args.userId
                       /\ st[k].item2 = last.args.recommendedItem }

(* C11: provideFeedback is last-write-wins and never changes the number of
   records: after a successful call the store has the same records in the same
   places, the records of (u, x) carry the feedback just given, whatever they
   carried before, and a createdAt not older than before, and nothing else
   differs; giving the value already stored changes nothing but createdAt. *)
C11_FeedbackOverwrites ==
  FeedbackReturned =>
    /\ Len(store) = Len(last.before)
    /\ FeedbackIdx(store) = FeedbackIdx(last.before)
    /\ \A k \in 1..Len(store) :
         IF k \in FeedbackIdx(last.before)
         THEN /\ store[k].feedback = last.args.feedback
              /\ store[k].createdAt >= last.before[k].createdAt
              /\ [store[k] EXCEPT !.feedback = FbNull, !.createdAt = 0]
                   = [last.before[k] EXCEPT !.feedback = FbNull, !.createdAt = 0]
         ELSE store[k] = last.before[k]

\* Negative feedback given, at a later time, on the one record of x that
\* carried positive feedback.
C11_Witness ==
  /\ FeedbackReturned /\ last.args.feedback = FbFalse
  /\ Cardinality(FeedbackIdx(store)) = 1
  /\ \E k \in FeedbackIdx(last.before) :
       /\ last.before[k].feedback = FbTrue
       /\ store[k].createdAt > last.before[k].createdAt

NotFoundFeedback == "No existing recommendation found for the provided item and user."

(* C12: provideFeedback(u, x, f) with non-empty u and x returns the not-found
   error and leaves the store unchanged when the store holds no record with
   userId = u and recommended item id = x, also when x is the id of a
   recommendation made to another user. *)
C12_FeedbackNotFound ==
  ( /\ last.op = "provideFeedback"
    /\ last.args.userId # "" /\ last.args.recommendedItem # <<>>
    /\ FeedbackIdx(last.before) = {} )
  => /\ ~last.ok
     /\ last.err = NotFoundFeedback
     /\ store = last.before

\* Feedback by one user on an item id stored only for the other user.
C12_Witness ==
  /\ last.op = "provideFeedback" /\ ~last.ok
  /\ last.args.userId \in Users
  /\ FeedbackIdx(last.before) = {}
  /\ \E k \in 1..Len(last.before) :
       /\ last.before[k].item2 = last.args.recommendedItem
       /\ last.before[k].userId # last.args.userId

(* C13: clearRecommendations({userId: A}), for any supplied userId A, removes
   every record of user A and leaves every record of every other user
   unchanged; clearRecommendations() without a userId removes all records. *)
C13_ClearScoped ==
  last.op = "clearRecommendations" =>
    IF last.args.userId = UserAbsent
    THEN store = <<>>
    ELSE store = SelectSeq(last.before, LAMBDA d : d.userId # last.args.userId)

(* C13 for a non-empty userId: the part of the claim that holds. *)
C13_ClearScopedNonEmpty ==
  (last.op = "clearRecommendations" /\ last.args.userId \in Users) =>
    store = SelectSeq(last.before, LAMBDA d : d.userId # last.args.userId)

\* A clear for one user that removed a record and left another user's record.
C13_Witness ==
  /\ last.op = "clearRecommendations" /\ last.args.userId \in Users
  /\ Len(store) >= 1 /\ Len(store) < Len(last.before)

NotFoundDelete == "No recommendation found with the provided ID."

(* C14: deleteRecommendation(id) with a non-empty id removes exactly the one
   record whose primary id is id and leaves all other records unchanged; if no
   record has that id it returns the not-found error and the store is
   unchanged. *)
C14_DeleteExactlyOne ==
  (last.op = "deleteRecommendation" /\ last.args.recommendationId # 0) =>
    IF \E k \in 1..Len(last.before) : last.before[k]._id = last.args.recommendationId
    THEN /\ last.ok
         /\ Len(store) = Len(last.before) - 1
         /\ store = SelectSeq(last.before,
                              LAMBDA d : d._id # last.args.recommendationId)
    ELSE /\ ~last.ok
         /\ last.err = NotFoundDelete
         /\ store = last.before

\* A delete that removed one of two stored records.
C14_Witness ==
  /\ last.op = "deleteRecommendation" /\ last.ok
  /\ Len(last.before) = 2 /\ Len(store) = 1
  /\ store[1]._id # last.args.recommendationId

\* The last call had an empty userId, an empty item or id, or amount <= 0.
InvalidCall ==
  \/ /\ last.op = "generate"
     /\ last.args.userId = "" \/ last.args.sourceItem = <<>> \/ last.args.amount <= 0
  \/ /\ last.op = "getRecommendations"
     /\ last.args.userId = "" \/ last.args.item = <<>> \/ last.args.amount <= 0
  \/ /\ last.op = "provideFeedback"
     /\ last.args.userId = "" \/ last.args.recommendedItem = <<>>
  \/ /\ last.op = "deleteRecommendation"
     /\ last.args.recommendationId = 0

(* C15: a generate, getRecommendations, provideFeedback or deleteRecommendation
   call with an empty userId, an empty item or id, or amount <= 0 returns an
   error, returns no records, and leaves the store unchanged; a rejected
   generate call is rejected whatever the store holds and whatever the
   completion call would do (it reads neither). *)
C15_InvalidRejected ==
  InvalidCall =>
    /\ ~last.ok /\ last.err # ""
    /\ last.out = <<>>
    /\ store = last.before
    /\ last.op = "generate" =>
         \A o \in LLMOutcomes : \A st \in {<<>>, store} :
           LET r == generate(st, now, nextId, [last.args EXCEPT !.outcome = o])
           IN ~r.ok /\ r.err = last.err /\ r.recs = <<>>

\* A generate call with an empty userId on an engine with an LLM and a
\* non-empty store.
C15_Witness ==
  /\ last.op = "generate" /\ ~last.ok
  /\ last.args.userId = "" /\ last.args.llm
  /\ Len(store) >= 1

\* The positions of the stored records the last getFeedbackHistory call is to
\* report: of its user, with feedback set, and of its source item if one is given.
C19_Expected ==
  { k \in 1..Len(store) :
      /\ store[k].userId = last.args.userId
      /\ store[k].feedback \in {FbTrue, FbFalse}
      /\ last.args.sourceItem \in SourceIds => store[k].item1 = last.args.sourceItem }

(* C19: getFeedbackHistory(u, s?) for a non-empty u returns exactly one entry
   per stored record of user u whose feedback is set, restricted to the records
   of source s when s is given; records with unset feedback and records of
   other users never appear, and each entry carries its record's id, feedback
   value and source item. *)
C19_HistoryExact ==
  (last.op = "getFeedbackHistory" /\ last.args.userId \in Users) =>
    /\ last.ok
    /\ Len(last.out) = Cardinality(C19_Expected)
    /\ \A k \in C19_Expected : \E j \in 1..Len(last.out) :
         /\ last.out[j].recommendationId = store[k]._id
         /\ last.out[j].feedback = store[k].feedback
         /\ last.out[j].sourceItem = store[k].item1
         /\ last.out[j].item = store[k].itemName
    /\ \A j \in 1..Len(last.out) : \E k \in C19_Expected :
         last.out[j].recommendationId = store[k]._id

\* A history for one source that reports one record and leaves out another
\* record of the same user that has feedback under the other source.
C19_Witness ==
  /\ last.op = "getFeedbackHistory" /\ last.ok
  /\ last.args.sourceItem \in SourceIds
  /\ Len(last.out) = 1
  /\ \E k \in 1..Len(store) :
       /\ store[k].userId = last.args.userId
       /\ store[k].feedback # FbNull
       /\ store[k].item1 # last.args.sourceItem

(* =============== further claims checked under Spec ===================== *)
\* The last call was a generate call that passed validation on an engine with
\* an LLM.
LLMCallMade ==
  /\ last.op = "generate" /\ last.args.llm
  /\ last.args.userId # "" /\ last.args.sourceItem # <<>> /\ last.args.amount > 0

LastList == last.args.outcome.list

Nameless(k) == last.args.outcome.kind = "list" /\ LastList[k].name = Absent

(* C16, as stated: on the LLM path, if the completion call throws, its output
   cannot be parsed, or any candidate of the list has no name, generate returns
   an error and the store is as before the call. *)
C16_AnyMalformedFails ==
  ( /\ LLMCallMade
    /\ \/ last.args.outcome.kind \in {"throw", "garbage"}
       \/ \E k \in 1..Len(LastList) : Nameless(k) )
  => ~last.ok /\ store = last.before

(* C16, amended: on the LLM path, if the completion call throws, its output
   cannot be parsed, or one of the first `amount` candidates of the list has no
   name, generate returns an error; and whenever generate returns an error on
   the LLM path it returns no records and the store is as before the call. *)
C16_FailureStoresNothing ==
  LLMCallMade =>
    /\ ( \/ last.args.outcome.kind \in {"throw", "garbage"}
         \/ \E k \in 1..Len(LastList) : k <= last.args.amount /\ Nameless(k) )
       => ~last.ok
    /\ ~last.ok => (last.out = <<>> /\ store = last.before /\ last.err # "")

\* A failed call whose list had a candidate that is acceptable on the empty
\* store in front of a nameless one.
C16_Witness ==
  /\ LLMCallMade /\ ~last.ok
  /\ last.before = <<>> /\ store = <<>>
  /\ last.args.amount = 2
  /\ last.args.outcome.kind = "list" /\ Len(LastList) = 2
  /\ LastList[1].name = NameB /\ Nameless(2)

\* The last call was a generate call that passed validation on an engine
\* without an LLM.
FallbackCallMade ==
  /\ last.op = "generate" /\ ~last.args.llm
  /\ last.args.userId # "" /\ last.args.sourceItem # <<>> /\ last.args.amount > 0

NameSet(recs) == { recs[k].itemName : k \in 1..Len(recs) }

(* C17: with no LLM configured, a generate call repeated with identical
   inputs right after the first one (no feedback in between, at the same or a
   later time) returns records with the same set of names: what the first call
   stored does not change what the second returns. *)
C17_FallbackRepeats ==
  FallbackCallMade =>
    \A t \in now..MaxTime :
      LET again == generate(store, t, nextId, last.args)
      IN again.ok = last.ok /\ NameSet(again.recs) = NameSet(last.out)

\* A fallback call that returned a record while a record with feedback was
\* stored for its user and source.
C17_Witness ==
  /\ FallbackCallMade /\ last.ok
  /\ Len(last.out) >= 1
  /\ \E k \in 1..Len(last.before) :
       /\ last.before[k].userId = last.args.userId
       /\ last.before[k].item1 = LastMbid
       /\ last.before[k].feedback # FbNull

\* The merged similarity lists of the last call, by descending score.
C18_Ranked ==
  SortByScoreDesc(AllSimilarItems(last.args.similarArtists,
                                  last.args.similarRecordings,
                                  last.args.similarReleaseGroups))

\* Lowercased names that carry feedback for the user and source of the last call.
C18_Flagged ==
  { ToLowerCase(last.before[k].itemName) :
      k \in { j \in 1..Len(last.before) :
                /\ last.before[j].userId = last.args.userId
                /\ last.before[j].item1 = LastMbid
                /\ last.before[j].feedback # FbNull } }

\* Greedy choice over items: in order, every candidate that is not flagged and
\* repeats neither the name nor the generated id of one chosen before it, until
\* `amount` are chosen.
RECURSIVE C18_Take(_, _, _)
C18_Take(items, i, chosen) ==
  IF i > Len(items) \/ Len(chosen) >= last.args.amount THEN chosen
  ELSE IF /\ ToLowerCase(items[i].name) \notin C18_Flagged
          /\ \A k \in 1..Len(chosen) :
               /\ ToLowerCase(chosen[k].name) # ToLowerCase(items[i].name)
               /\ Slug(ToLowerCase(chosen[k].name)) # Slug(ToLowerCase(items[i].name))
       THEN C18_Take(items, i + 1, Append(chosen, items[i]))
       ELSE C18_Take(items, i + 1, chosen)

C18_Names(items) == [k \in 1..Len(items) |-> items[k].name]

(* C18, as stated: with no LLM configured, generate returns, in descending
   score order, the first `amount` candidates of the whole merged list that are
   neither feedback-flagged nor duplicates within the batch, so fewer than
   `amount` only when the eligible candidates of the whole list are exhausted. *)
C18_GreedyOverWholeList ==
  FallbackCallMade =>
    /\ last.ok
    /\ ReturnedNames(last.out) = C18_Names(C18_Take(C18_Ranked, 1, <<>>))

(* C18, amended: the greedy choice runs over the first 2 * amount candidates
   of the merged list in descending score order, and candidates behind them
   are never considered. *)
C18_GreedyOverTopCandidates ==
  FallbackCallMade =>
    /\ last.ok
    /\ ReturnedNames(last.out) =
         C18_Names(C18_Take(SubSeq(C18_Ranked, 1,
                                   Min(2 * last.args.amount, Len(C18_Ranked))),
                            1, <<>>))
    /\ store = last.before \o last.out

\* A fallback call for one record whose two best candidates were flagged
\* while a third, eligible one was on the list.
C18_Witness ==
  /\ FallbackCallMade /\ last.ok
  /\ last.args.amount = 1 /\ Len(C18_Ranked) = 3
  /\ ToLowerCase(C18_Ranked[1].name) \in C18_Flagged
  /\ ToLowerCase(C18_Ranked[2].name) \in C18_Flagged
  /\ ToLowerCase(C18_Ranked[3].name) \notin C18_Flagged
  /\ last.out = <<>>

(* C20: in every reachable state, no two stored records with the same
   (userId, sourceItem) have the same recommended item id. *)
C20_UniqueItemIds ==
  \A i, j \in 1..Len(store) :
    (i # j /\ store[i].userId = store[j].userId /\ store[i].item1 = store[j].item1)
      => store[i].item2 # store[j].item2

\* Lowercased non-empty names stored for the user and source of the last call
\* when it started.
C23_StoredNames ==
  { ToLowerCase(last.before[k].itemName) :
      k \in { j \in 1..Len(last.before) :
                /\ last.before[j].userId = last.args.userId
                /\ last.before[j].item1 = LastMbid
                /\ last.before[j].itemName # <<>> } }

\* A candidate the LLM path may store: it has a non-empty name, which is not
\* the source item's name and is not stored yet for this user and source.
C23_Eligible(cand) ==
  /\ cand.name # Absent /\ cand.name # <<>>
  /\ cand.name # SourceName(last.args.meta)
  /\ ToLowerCase(cand.name) \notin C23_StoredNames

(* C23: on the LLM path a successful generate returns exactly the first
   `amount` eligible candidates in the order the model returned them (all the
   eligible ones if there are fewer), never more than `amount`; an answer with
   no candidate, or with no eligible candidate, is a success with no records. *)
C23_FirstEligibleInOrder ==
  (LLMCallMade /\ last.args.outcome.kind = "list") =>
    /\ last.ok =>
         /\ Len(last.out) <= last.args.amount
         /\ ReturnedNames(last.out) =
              C18_Names(SubSeq(SelectSeq(LastList, C23_Eligible), 1,
                               Min(last.args.amount,
                                   Len(SelectSeq(LastList, C23_Eligible)))))
    /\ (\A k \in 1..Len(LastList) : ~Nameless(k) /\ ~C23_Eligible(LastList[k]))
         => (last.ok /\ last.out = <<>>)

\* A call for one record, on a non-empty store, whose answer held two
\* eligible candidates with different names: only the first is returned.
C23_Witness ==
  /\ LLMCallMade /\ last.ok
  /\ last.args.amount = 1 /\ Len(LastList) = 2
  /\ C23_Eligible(LastList[1]) /\ C23_Eligible(LastList[2])
  /\ LastList[1].name # LastList[2].name
  /\ Len(last.out) = 1 /\ last.out[1].itemName = LastList[1].name
  /\ last.before # <<>>

FallbackTemplates ==
  { FallbackReasoning(type) : type \in {"artist", "recording", "release-group"} }

C24_New == { d \in Range(store) : d \notin Range(last.before) }

(* C24: the fallback path is taken exactly when no LLM is configured.  With an
   LLM configured, a call whose completion throws or returns unusable output
   fails, returns no record and stores none, and no call with an LLM returns or
   stores a record carrying the fallback reasoning template; with no LLM, a
   valid call succeeds and all its records carry the fallback template. *)
C24_FallbackIffNoLLM ==
  /\ LLMCallMade =>
       /\ last.args.outcome.kind \in {"throw", "garbage"} =>
            (~last.ok /\ last.out = <<>> /\ store = last.before)
       /\ \A d \in Range(last.out) \cup C24_New : d.reasoning \notin FallbackTemplates
  /\ FallbackCallMade =>
       /\ last.ok
       /\ \A d \in Range(last.out) \cup C24_New : d.reasoning \in FallbackTemplates

\* An LLM-configured call whose completion threw although the providers'
\* lists had candidates the fallback path would have stored.
C24_Witness ==
  /\ LLMCallMade /\ last.args.outcome.kind = "throw"
  /\ ~last.ok /\ store = last.before
  /\ generateFallbackRecommendations(
       [ userId |-> last.args.userId, mbid |-> LastMbid, amount |-> last.args.amount,
         meta |-> last.args.meta, t |-> now, firstId |-> nextId,
         feedbackNames |-> {}, recommendedNames |-> {}, feedbackItems |-> {} ],
       last.args.similarArtists, last.args.similarRecordings,
       last.args.similarReleaseGroups) # <<>>

(* C25: a successful generate only inserts.  The store after the call is the
   store before it followed by exactly the returned records; each returned
   record is new, has its feedback unset and carries the caller's userId; no
   record that was stored before is changed or removed. *)
C25_GenerateOnlyInserts ==
  GenerateReturned =>
    /\ store = last.before \o last.out
    /\ \A k \in 1..Len(last.out) :
         /\ last.out[k].feedback = FbNull
         /\ last.out[k].userId = last.args.userId
         /\ last.out[k]._id \notin { last.before[j]._id : j \in 1..Len(last.before) }

\* A generate that returned a record while a record with feedback was stored.
C25_Witness ==
  /\ GenerateReturned /\ last.out # <<>>
  /\ \E j \in 1..Len(last.before) : last.before[j].feedback # FbNull
  /\ Len(store) = Len(last.before) + Len(last.out)

\* The identifier the specification resolves for the last generate call.
C26_Resolved ==
  IF last.args.meta.id # Absent /\ last.args.meta.id # <<>>
  THEN last.args.meta.id
  ELSE last.args.sourceItem

\* The records the call found under its user and resolved identifier.
C26_Keyed ==
  SelectSeq(last.before,
            LAMBDA d : d.userId = last.args.userId /\ d.item1 = C26_Resolved)

(* C26: every record a generate call stores has as its sourceItem the id of
   sourceItemMetadata when that id is present and non-empty, and the caller's
   sourceItem otherwise; the feedback lookup and the previously-recommended
   lookup of the call read the records of that same resolved identifier and no
   others: the call returns what it would return had the store held only the
   user's records of the resolved identifier. *)
C26_ResolvedSourceItem ==
  last.op = "generate" =>
    /\ \A d \in Range(last.out) \cup C24_New : d.item1 = C26_Resolved
    /\ LET r == generate(C26_Keyed, now, nextId, last.args) IN
         /\ r.ok = last.ok
         /\ ReturnedNames(r.recs) = ReturnedNames(last.out)

\* A call whose metadata id differs from the caller's sourceItem: a name stored
\* under the metadata id was left out, another was stored under that id.
C26_Witness ==
  /\ LLMCallMade /\ last.ok
  /\ C26_Resolved # last.args.sourceItem
  /\ last.out # <<>> /\ last.out[1].item1 = last.args.meta.id
  /\ \E k \in 1..Len(LastList), j \in 1..Len(last.before) :
       /\ last.before[j].item1 = last.args.meta.id
       /\ last.before[j].itemName = LastList[k].name
       /\ LastList[k].name \notin NameSet(last.out)

(* ================ further claims checked under SpecStore =============== *)
\* The fields of a record that are fixed when it is created.
C27_Fixed(d) ==
  [ _id |-> d._id, userId |-> d.userId, item1 |-> d.item1, item2 |-> d.item2,
    itemName |-> d.itemName, reasoning |-> d.reasoning, confidence |-> d.confidence ]

(* C27: a stored record never changes its id, userId, sourceItem,
   recommendedItemId, recommendedItemName, reasoning or confidence: every
   record that is in the store after an operation and was in it before has the
   same values in these fields, and it is the very same record unless the
   operation was provideFeedback, which changes feedback and createdAt only. *)
C27_ImmutableFields ==
  \A d \in Range(store), b \in Range(last.before) :
    d._id = b._id =>
      /\ C27_Fixed(d) = C27_Fixed(b)
      /\ last.op # "provideFeedback" => d = b

\* A provideFeedback that changed the feedback and the createdAt of a record
\* whose confidence is not the one a reset would give.
C27_Witness ==
  /\ FeedbackReturned
  /\ \E d \in Range(store), b \in Range(last.before) :
       /\ d._id = b._id
       /\ d.feedback # b.feedback /\ d.createdAt # b.createdAt
       /\ d.confidence # 100

(* C28: a successful provideFeedback(u, x, f) rewrites every record with
   userId = u and recommendedItemId = x, giving each of them feedback = f and
   the time of the call as createdAt (one time for all of them, not earlier
   than any createdAt stored before and not later than now), and leaves every
   other record exactly as it was; at least one record is rewritten. *)
C28_FeedbackOnEveryMatch ==
  FeedbackReturned =>
    /\ FeedbackIdx(last.before) # {}
    /\ DOMAIN store = DOMAIN last.before
    /\ \E t \in 0..now :
         /\ \A j \in 1..Len(last.before) : last.before[j].createdAt <= t
         /\ \A k \in 1..Len(last.before) :
              store[k] = IF k \in FeedbackIdx(last.before)
                         THEN [last.before[k] EXCEPT !.feedback = last.args.feedback,
                                                     !.createdAt = t]
                         ELSE last.before[k]

\* Feedback given on an item id that two records of the user carry, under
\* different source items: both records were rewritten.
C28_Witness ==
  /\ FeedbackReturned
  /\ Cardinality(FeedbackIdx(last.before)) = 2
  /\ \E j, k \in FeedbackIdx(last.before) : last.before[j].item1 # last.before[k].item1
  /\ \A k \in FeedbackIdx(last.before) : store[k].feedback # last.before[k].feedback

(* =================== claims checked under SpecExplore ================== *)
\* The generate call of the scenario: no LLM, source "Radiohead", similar
\* artists Muse (95) and Pink Floyd (70), amount 2, on an empty store.
C22_Generated ==
  /\ last.op = "generate" /\ ~last.args.llm
  /\ last.args.userId = "u1" /\ last.args.sourceItem = Radiohead
  /\ last.args.amount = 2 /\ last.args.similarArtists = MuseAndPinkFloyd
  /\ last.before = <<>>

\* The store the scenario has built when the user asks for recommendations:
\* the two generated records, Muse liked and Pink Floyd disliked.
C22_AfterFeedback ==
  /\ Len(last.before) = 2
  /\ \A k \in 1..2 : /\ last.before[k].userId = "u1"
                     /\ last.before[k].item1 = Radiohead
                     /\ last.before[k].reasoning = FallbackReasoning("artist")
  /\ last.before[1].itemName = Muse /\ last.before[1].confidence = 95
  /\ last.before[1].feedback = FbTrue
  /\ last.before[2].itemName = PinkFloyd /\ last.before[2].confidence = 70
  /\ last.before[2].feedback = FbFalse

C22_Asked ==
  /\ last.op = "getRecommendations"
  /\ last.args.userId = "u1" /\ last.args.item = Radiohead /\ last.args.amount = 2
  /\ last.args.feedbacked /\ last.args.ignore = IgnoreAbsent
  /\ C22_AfterFeedback

(* C22: with no LLM configured, generate for source "Radiohead" with similar
   artists Muse (score 95) and Pink Floyd (score 70) and amount 2 returns
   exactly Muse then Pink Floyd with confidences 0.95 and 0.70 (hundredths: 95
   and 70); once Muse's id has positive and Pink Floyd's id negative feedback,
   getRecommendations(u, "Radiohead", 2) returns exactly one entry, Muse. *)
C22_EndToEnd ==
  /\ C22_Generated =>
       /\ last.ok
       /\ ReturnedNames(last.out) = <<Muse, PinkFloyd>>
       /\ [k \in 1..Len(last.out) |-> last.out[k].confidence] = <<95, 70>>
       /\ store = last.out
  /\ C22_Asked =>
       /\ last.ok
       /\ Len(last.out) = 1
       /\ last.out[1].item = last.before[1].item2
       /\ last.out[1].itemName = Muse
       /\ last.out[1].confidence = 95

\* The last step of the scenario has been taken.
C22_Witness ==
  /\ C22_Asked /\ last.ok
  /\ Len(last.out) = 1 /\ last.out[1].itemName = Muse
  /\ last.before[2].item2 = ItemId("u1", PinkFloyd, 0)

\* The positions of the records the last getRecommendations call is about: the
\* user's records with the queried item on either side.
C29_Matching ==
  { k \in 1..Len(last.before) :
      /\ last.before[k].userId = last.args.userId
      /\ (last.before[k].item1 = last.args.item \/ last.before[k].item2 = last.args.item) }

C29_OtherSide(k) ==
  IF last.before[k].item1 = last.args.item
  THEN last.before[k].item2 ELSE last.before[k].item1

\* The matching records that may be returned: the first record of its other
\* side (later ones are duplicates), not the queried item itself, not on the
\* ignore list, and with feedback the mode of the call admits.
C29_Returnable ==
  { k \in C29_Matching :
      /\ \A j \in C29_Matching : j < k => C29_OtherSide(j) # C29_OtherSide(k)
      /\ C29_OtherSide(k) # last.args.item
      /\ C29_OtherSide(k) \notin Range(IgnoreOrDefault(last.args.ignore))
      /\ IF last.args.feedbacked
         THEN last.before[k].feedback # FbFalse
         ELSE last.before[k].feedback = FbNull }

(* C29: getRecommendations(u, item, ...) with valid parameters succeeds, with
   at most `amount` entries whose item ids are pairwise distinct and none of
   which is the queried item; every entry is the other side of a record of u
   that has the queried item as sourceItem or as recommendedItemId, and when
   fewer than `amount` entries are returned (none included) every such record
   that may be returned (the first of its other side, not ignored, with
   feedback the call admits) has its other side in the result. *)
C29_OtherSidesOfMatching ==
  ( /\ last.op = "getRecommendations"
    /\ ~FalsyUser(last.args.userId) /\ Truthy(last.args.item) /\ last.args.amount > 0 )
  => /\ last.ok
     /\ Len(last.out) <= last.args.amount
     /\ \A i, j \in 1..Len(last.out) : last.out[i].item = last.out[j].item => i = j
     /\ \A i \in 1..Len(last.out) :
          /\ last.out[i].item # last.args.item
          /\ \E k \in C29_Matching : last.out[i].item = C29_OtherSide(k)
     /\ Len(last.out) < last.args.amount =>
          \A k \in C29_Returnable :
            \E i \in 1..Len(last.out) : last.out[i].item = C29_OtherSide(k)

\* A query by the id of a recommended item, while the user holds two records
\* of one source that recommend it and another user holds a record of the same
\* source: the source is returned once.
C29_Witness ==
  /\ last.op = "getRecommendations" /\ last.ok
  /\ last.args.item = MuseItem /\ last.args.amount = 2
  /\ \E j, k \in C29_Matching :
       j # k /\ C29_OtherSide(j) = Radiohead /\ C29_OtherSide(k) = Radiohead
  /\ \E k \in 1..Len(last.before) : last.before[k].userId = "u2"
  /\ Len(last.out) = 1 /\ last.out[1].item = Radiohead

\* A query for an item the user holds a record from to itself: not returned.
C29_SelfRecordSkipped ==
  /\ last.op = "getRecommendations" /\ last.ok
  /\ \E k \in C29_Matching : C29_OtherSide(k) = last.args.item
  /\ last.args.ignore = IgnoreAbsent /\ last.args.feedbacked

(* =================== claims checked under SpecFaults =================== *)
\* The last call reached a store call that raised.
StoreFailed == "failing" \in DOMAIN last.args /\ last.args.reached

(* C21: a failure raised by the document store during any operation of the
   engine (generate, getRecommendations, provideFeedback, deleteRecommendation,
   clearRecommendations, getFeedbackHistory) reaches the caller unchanged as
   an exception: it is not caught and not turned into an error descriptor. *)
C21_StoreFailurePropagates ==
  StoreFailed => last.err = ThrownStoreError

\* What the engine does with a store failure: the five operations other than
\* generate return an error descriptor that embeds the message; generate
\* drops a failure of its feedback-history lookup and carries on without the
\* history, lets a failure of its name lookups and of the fallback insert reach
\* the caller as an exception, and returns a descriptor for a failure of the
\* insert on the LLM path.
C21_StoreFailureHandling ==
  StoreFailed =>
    IF last.op = "generate"
    THEN CASE last.args.failing = "history" ->
                last.err # ThrownStoreError
                  /\ last.ok = generateFrom(last.before, now, nextId, last.args, <<>>).ok
           [] last.args.failing = "names" -> last.err = ThrownStoreError
           [] last.args.failing = "insert" ->
                IF last.args.llm
                THEN last.err = "Failed to generate recommendations: store error"
                ELSE last.err = ThrownStoreError
    ELSE /\ ~last.ok
         /\ last.err \in { getRecommendationsStoreFails, provideFeedbackStoreFails,
                          deleteRecommendationStoreFails, clearRecommendationsStoreFails,
                          getFeedbackHistoryStoreFails }

\* A provideFeedback whose updateMany raised: the caller got a descriptor.
C21_Witness ==
  /\ StoreFailed /\ last.op = "provideFeedback"
  /\ last.err = provideFeedbackStoreFails
  /\ last.before # <<>>

(* ==================== claims checked under SpecRace ==================== *)
\* The last generate call ran while another call wrote: the store it read is
\* not the store it wrote to.
C30_Overlapped ==
  /\ last.op = "generate" /\ last.ok
  /\ last.args.snapshot # last.before

\* Two stored records of one user and source item that carry the same name.
C30_SameNameTwice ==
  \E j, k \in 1..Len(store) :
    /\ j < k
    /\ store[j].userId = store[k].userId /\ store[j].item1 = store[k].item1
    /\ ToLowerCase(store[j].itemName) = ToLowerCase(store[k].itemName)

(* C30: nothing in generate locks the store or looks at it again between its
   read of the previously recommended names and its insert: a call that
   overlaps another one inserts exactly the records it built from the snapshot
   it read, whatever has been stored since.  Two overlapping calls for one
   (user, sourceItem) therefore both insert a record of a name both found
   absent (the state of the witness). *)
C30_InsertsWhatTheSnapshotAllowed ==
  (last.op = "generate" /\ last.ok) =>
    /\ store = last.before \o last.out
    /\ ReturnedNames(last.out)
         = ReturnedNames(generate(last.args.snapshot, now, nextId, last.args).recs)

\* Two overlapping calls read the same snapshot, which did not hold the name,
\* and both inserted a record of that name for the same user and source item.
C30_Witness ==
  /\ C30_Overlapped
  /\ \E j \in 1..Len(last.before), k \in 1..Len(last.out) :
       /\ last.before[j].userId = last.out[k].userId
       /\ last.before[j].item1 = last.out[k].item1
       /\ last.before[j].itemName = last.out[k].itemName
       /\ last.before[j] \notin Range(last.args.snapshot)
       /\ \A d \in Range(last.args.snapshot) : d.itemName # last.out[k].itemName
  /\ C30_SameNameTwice

(* =================== further claims checked under Spec ================= *)
\* The outside calls of the last operation.
C31_Calls ==
  CASE last.op = "generate" -> generateCalls(last.before, now, nextId, last.args)
    [] last.op = "provideFeedback" ->
         provideFeedbackCalls(last.args.userId, last.args.recommendedItem)
    [] last.op = "deleteRecommendation" ->
         deleteRecommendationCalls(last.args.recommendationId)
    [] OTHER -> <<>>

C31_Count(calls, S) == Cardinality({ k \in 1..Len(calls) : calls[k] \in S })

\* generate: at most one LLM call, at most one write, and the write comes last.
C31_GenerateOnce ==
  last.op = "generate" =>
    /\ C31_Count(C31_Calls, {"executeLLM"}) <= 1
    /\ C31_Count(C31_Calls, StoreWrites) <= 1
    /\ \A k \in 1..Len(C31_Calls) :
         C31_Calls[k] \in StoreWrites =>
           /\ C31_Calls[k] = "insertMany" /\ k = Len(C31_Calls)
    /\ (last.ok /\ last.out # <<>>) <=> C31_Count(C31_Calls, StoreWrites) = 1

(* C31, as stated: each generate call invokes the LLM at most once and makes
   at most one store write, a single batch insert after all its reads;
   provideFeedback and deleteRecommendation each make exactly one store write
   per call. *)
C31_ExactlyOneWritePerCall ==
  /\ C31_GenerateOnce
  /\ last.op \in {"provideFeedback", "deleteRecommendation"} =>
       C31_Count(C31_Calls, StoreWrites) = 1

(* C31, amended: as above for generate; a provideFeedback or
   deleteRecommendation call whose parameters pass the validation makes
   exactly one store call, a write (updateMany, deleteOne), and a call the
   validation rejects makes none. *)
C31_OneWritePerValidCall ==
  /\ C31_GenerateOnce
  /\ last.op = "provideFeedback" =>
       IF last.args.userId # "" /\ last.args.recommendedItem # <<>>
       THEN C31_Calls = <<"updateMany">> ELSE C31_Calls = <<>>
  /\ last.op = "deleteRecommendation" =>
       IF last.args.recommendationId # 0
       THEN C31_Calls = <<"deleteOne">> ELSE C31_Calls = <<>>

\* An LLM-path generate that stored records: three reads, one LLM call, one
\* insert, in that order.
C31_Witness ==
  /\ LLMCallMade /\ last.ok /\ last.out # <<>>
  /\ C31_Calls = <<"find", "find", "find", "executeLLM", "insertMany">>

(* ================== claims checked under SpecIsolation ================= *)
\* The records of the store the last call found that belong to its user, and
\* those that belong to others.
C32_Own == SelectSeq(last.before, LAMBDA d : d.userId = last.args.userId)
C32_Others(st) == SelectSeq(st, LAMBDA d : d.userId # last.args.userId)

\* What the last call answers on the store st, as far as st decides it.
C32_Answer(st) ==
  CASE last.op = "generate" ->
         LET r == generate(st, now, nextId, last.args)
         IN <<r.ok, r.err, ReturnedNames(r.recs)>>
    [] last.op = "getRecommendations" ->
         LET r == getRecommendations(st, last.args)
         IN <<r.ok, r.err, r.itemsWithReasoning>>
    [] last.op = "provideFeedback" ->
         LET r == provideFeedback(st, now, last.args.userId,
                                  last.args.recommendedItem, last.args.feedback)
         IN <<r.ok, r.err, <<>>>>
    [] last.op = "getFeedbackHistory" ->
         LET r == getFeedbackHistory(st, last.args.userId, last.args.sourceItem)
         IN <<r.ok, r.err, r.history>>
    [] OTHER -> <<TRUE, "", <<>>>>

C32_Returned ==
  <<last.ok, last.err,
    IF last.op = "generate" THEN ReturnedNames(last.out) ELSE last.out>>

(* C32: an operation invoked for a user A (generate, getRecommendations,
   provideFeedback, getFeedbackHistory, clearRecommendations with userId A)
   answers what it would answer on a store holding A's records only, so its
   result is the same on any two stores that agree on A's records, and the
   records of every other user are the same after the call as before it. *)
C32_UserIsolation ==
  ( /\ last.op \in {"generate", "getRecommendations", "provideFeedback",
                    "getFeedbackHistory", "clearRecommendations"}
    /\ last.args.userId \in Users )
  => /\ C32_Returned = C32_Answer(C32_Own)
     /\ C32_Others(store) = C32_Others(last.before)

\* A generate for one user that returned a name which another user holds for
\* the same source item.
C32_Witness ==
  /\ GenerateReturned /\ last.out # <<>>
  /\ last.args.userId \in Users
  /\ \E d \in Range(C32_Others(last.before)) :
       d.item1 = last.out[1].item1 /\ d.itemName = last.out[1].itemName
  /\ C32_Others(store) = C32_Others(last.before)

(* =================== claims checked under SpecDislike ================== *)
\* Lowercased names of the records of (u, s) that carried negative feedback
\* when the last getRecommendations(u, s, ..) call was made.
C33_DislikedNames ==
  { ToLowerCase(d.itemName) :
      d \in { e \in Range(last.before) :
                /\ e.userId = last.args.userId /\ e.item1 = last.args.item
                /\ e.feedback = FbFalse } }

(* C33: while some record named x for (u, s) carries negative feedback, a
   default getRecommendations(u, s, amount) returns no candidate whose name
   equals x, compared case-insensitively, after any sequence of generate,
   provideFeedback and getRecommendations calls on either generation path. *)
C33_NoDislikedNameReturned ==
  ( /\ last.op = "getRecommendations" /\ last.ok
    /\ last.args.feedbacked )
  => \A k \in 1..Len(last.out) :
       ToLowerCase(last.out[k].itemName) \notin C33_DislikedNames

(* ================= claims checked under SpecInterleave ================= *)
(* C34: when a generate call and a provideFeedback call for the same user and
   source item interleave, generate never inserts a record whose name carries
   negative feedback for that (user, source) at the moment of the insert:
   no record the call inserts has the name (compared case-insensitively) of a
   record of the same user and source item that the store held with negative
   feedback when insertMany ran. *)
C34_NeverInsertsDisliked ==
  (last.op = "generate" /\ last.ok) =>
    \A k \in 1..Len(last.out), j \in 1..Len(last.before) :
      ~ ( /\ last.before[j].userId = last.out[k].userId
          /\ last.before[j].item1 = last.out[k].item1
          /\ last.before[j].feedback = FbFalse
          /\ ToLowerCase(last.before[j].itemName) = ToLowerCase(last.out[k].itemName) )

\* The same for calls on the LLM path: with one generate call in progress at a
\* time, the claim holds there.
C34_LLMNeverInsertsDisliked ==
  (last.op = "generate" /\ last.args.llm) => C34_NeverInsertsDisliked

(* ============ claims on feedback and queries, under SpecStore ========== *)
(* C35: feedback never returns to unset.  A record a call has just created
   has its feedback unset; a record that was stored before a call with
   positive or negative feedback and is still stored after it has positive or
   negative feedback (the value may have flipped): no operation writes the
   unset value to an existing record. *)
C35_FeedbackStaysSet ==
  \A d \in Range(store) :
    IF \E b \in Range(last.before) : b._id = d._id
    THEN \A b \in Range(last.before) :
           (b._id = d._id /\ b.feedback # FbNull) => d.feedback \in {FbTrue, FbFalse}
    ELSE d.feedback = FbNull

\* A provideFeedback that flipped a record from negative to positive feedback.
C35_Witness ==
  /\ FeedbackReturned /\ last.args.feedback = FbTrue
  /\ \E d \in Range(store), b \in Range(last.before) :
       b._id = d._id /\ b.feedback = FbFalse /\ d.feedback = FbTrue

(* ============== further claims checked under SpecIsolation ============= *)
\* The calls the last query made to the collection.
C36_Calls ==
  IF last.op = "getRecommendations" THEN getRecommendationsCalls(last.args)
  ELSE getFeedbackHistoryCalls(last.args.userId)

(* C36: getRecommendations and getFeedbackHistory are read-only: whatever the
   arguments (valid or not, either feedbacked mode, any ignore list), the call
   issues no write to the collection and the store after the call is the
   store before it. *)
C36_QueriesReadOnly ==
  last.op \in {"getRecommendations", "getFeedbackHistory"} =>
    /\ store = last.before
    /\ \A k \in 1..Len(C36_Calls) : C36_Calls[k] \notin StoreWrites

\* A getRecommendations in the unset-only mode that returned an entry, on a
\* store of two records that it did not change.
C36_Witness ==
  /\ last.op = "getRecommendations" /\ last.ok /\ ~last.args.feedbacked
  /\ Len(last.out) = 1 /\ Len(store) = 2
  /\ store = last.before
  /\ C36_Calls = <<"find">>

(* ================ claims checked under SpecRateLimit =================== *)
Requests == { k \in 1..Len(events) : events[k].kind = "request" }

\* C37: any two outbound requests of the wrapper are at least the rate-limit
\* interval apart, also when several uncached lookups are in flight at once.
C37_RequestsSpaced ==
  \A j, k \in Requests :
    j < k => events[k].at - events[j].at >= RATE_LIMIT_DELAY_MS

\* The event with which the call of request k entered _waitForRateLimit: its
\* "sleep" when it had to wait, the request itself when it had not.
Entered(k) ==
  IF \E n \in 1..k : events[n].kind = "sleep" /\ events[n].call = events[k].call
  THEN CHOOSE n \in 1..k : events[n].kind = "sleep" /\ events[n].call = events[k].call
  ELSE k

\* What the code does keep: a request is at least the interval after every
\* request that was sent before its call entered _waitForRateLimit.
C37_SpacedFromEarlierRequests ==
  \A j, k \in Requests :
    j < Entered(k) => events[k].at - events[j].at >= RATE_LIMIT_DELAY_MS

\* Two lookups slept on the same lastRequestTime and sent their requests at
\* the same time.
C37_Race ==
  \E j, k \in Requests :
    /\ j < k
    /\ events[j].call # events[k].call
    /\ Entered(j) < j /\ Entered(k) < j
    /\ events[k].at = events[j].at

(* ================== claims checked under SpecCache ===================== *)
SameEntity(e, f) == e.mbid = f.mbid /\ e.entityType = f.entityType

ClearedBetween(mbid, j, k) ==
  \E n \in (j + 1)..(k - 1) : events[n].kind = "cleared" /\ events[n].mbid = mbid

\* The entry of event k's entity that is in the cache when k happens: a
\* "stored" of the entity before k with no clearCache of its mbid after it.
StoredBefore(k) ==
  { j \in 1..(k - 1) :
      /\ events[j].kind = "stored"
      /\ SameEntity(events[j], events[k])
      /\ ~ClearedBetween(events[k].mbid, j, k) }

\* The event in which lookup i learnt what findOne found.
Checks(i) ==
  { n \in 1..Len(events) :
      events[n].call = i /\ events[n].kind \in {"cacheHit", "sleep", "request"}
      /\ \A m \in 1..(n - 1) : events[m].call # i }

\* The first half of C38: a lookup of an entity that was fetched and stored
\* less than the TTL before, with no clearCache of its mbid since, is answered
\* from the cache: it neither sends a request nor waits on the rate limiter.
C38_RepeatAnsweredFromCache ==
  \A i \in 1..Len(lookups) : \A k \in Checks(i) :
    (\E j \in StoredBefore(k) : events[k].at - events[j].at < ENTITY_CACHE_TTL_MS)
      => /\ events[k].kind = "cacheHit"
         /\ lookups[i].result = "cached"
         /\ \A n \in 1..Len(events) : events[n].call = i => n = k

\* The second half of C38, its first part: when clearCache(mbid) returns, no
\* cache entry of that mbid remains.
C38_ClearedLeavesNoEntry ==
  (Len(events) > 0 /\ events[Len(events)].kind = "cleared") =>
    \A ty \in EntityTypes :
      entityCache[CacheIdentifier(events[Len(events)].mbid, ty)] = NoEntry

\* The lookups of the mbid of the c-th event that were called after it.
CalledAfter(c) ==
  { i \in 1..Len(lookups) : lookups[i].mbid = events[c].mbid /\ lookups[i].seen >= c }

\* The events in which a lookup called after the c-th event learnt what
\* findOne found, and the first of them: the next lookup after c.
ChecksAfter(c) == { n \in 1..Len(events) : \E i \in CalledAfter(c) : n \in Checks(i) }
NextCheckAfter(c) == { n \in ChecksAfter(c) : \A m \in ChecksAfter(c) : n <= m }

\* The entries of the mbid of the c-th event that were stored after it by a
\* lookup that had been called before it.
StoredAcross(c) ==
  { w \in (c + 1)..Len(events) :
      /\ events[w].kind = "stored"
      /\ events[w].mbid = events[c].mbid
      /\ lookups[events[w].call].seen < c }

\* C38: after a stored lookup, a repeated lookup of the entity within the TTL
\* is answered from the cache, without a request and without a wait on the
\* rate limiter; after clearCache(mbid) no entry of the mbid remains, and the
\* next lookup of the mbid is not answered from the cache but sends a fresh
\* request.
C38_CacheThenClear ==
  /\ C38_RepeatAnsweredFromCache
  /\ C38_ClearedLeavesNoEntry
  /\ \A c \in 1..Len(events) :
       events[c].kind = "cleared" =>
         \A n \in NextCheckAfter(c) : events[n].kind # "cacheHit"

\* What the code does keep of the last part: the next lookup after a
\* clearCache sends a fresh request when no lookup of the mbid that was in
\* progress during the clearCache has stored its response in between.
C38_QuietClearForcesFetch ==
  \A c \in 1..Len(events) :
    events[c].kind = "cleared" =>
      \A n \in NextCheckAfter(c) :
        (\A w \in StoredAcross(c) : w > n) => events[n].kind \in {"sleep", "request"}

\* What the code does keep of the second half: a lookup is answered from the
\* cache only by an entry that was stored after the last clearCache of its
\* mbid, less than the TTL before.
C38_HitNeedsStoredEntry ==
  \A k \in 1..Len(events) :
    events[k].kind = "cacheHit" =>
      \E j \in StoredBefore(k) : events[k].at - events[j].at < ENTITY_CACHE_TTL_MS

\* clearCache returned while a request of the mbid was in flight; the response
\* was stored afterwards, and the next lookup that was called was answered
\* from the cache.
C38_Race ==
  \E c \in 1..Len(events) :
    /\ events[c].kind = "cleared"
    /\ \E r \in 1..(c - 1), w \in (c + 1)..Len(events) :
         /\ events[r].kind = "request" /\ events[w].kind = "stored"
         /\ events[r].call = events[w].call
         /\ events[w].mbid = events[c].mbid
    /\ \E n \in NextCheckAfter(c) : events[n].kind = "cacheHit"
====
